---- MODULE Spec2Model ----
(***************************************************************************)
(* Model of continuous-apply: the apply poller (SourceSync in PR-log and   *)
(* issue mode, Poller.Run) and the apply orchestrator (Applier.Run with    *)
(* the sequential and the parallel policy).                                *)
(***************************************************************************)
EXTENDS Integers, Sequences, FiniteSets, TLC

\* ------------------------------------------------------------------------
\* Bounds
\* ------------------------------------------------------------------------
\* number of lines the merge log may grow to
MaxLog == 2
\* number of issues that may be opened in issue mode
MaxIssues == 2
\* cap on the length of an object's status history
MaxHistory == 2
\* number of times Applier.Run is entered for the same issue
MaxRuns == 2
\* number of comments on the issue
MaxThread == 3
\* largest replica or pod count of a workload
MaxReplicas == 3
\* the StatusReporters of an IssueManagerSpec
MaxReporters == 2
\* number of issues and pull requests on the tracker the Manager works on
MaxTracker == 4
\* number of times the Manager's process is started
MaxStarts == 2

\* ------------------------------------------------------------------------
\* Value domains
\* ------------------------------------------------------------------------

Range(s) == {s[i] : i \in DOMAIN s}


\* error values returned by sync()
ErrNone == "nil"
ErrFetch == "could not fetch git"
ErrParse == "Expected prefix in IssueNum body"

\* ------------------------------------------------------------------------
\* State
\* ------------------------------------------------------------------------
VARIABLES
    cfg,        \* Poller configuration: Type and the Match* fields
    mergeLog,   \* output of git log origin/master --merges, newest first
    issues,     \* the tracker's issues / pull requests, by number
    p,          \* Poller.Issue, Poller.Pr, Poller.Commit, Applier.IssueNum
    pre,        \* p as it was when the last sync() was entered
    ret,        \* (bool, error) returned by the last sync()
    pc,         \* position of Poller.Run
    acfg,       \* Applier configuration: RolloutType, targets, Before*/After*
    tracker,    \* labels, assignees and state of issue IssueNum
    ros,        \* the rollout.Rollouts built by Applier.Run
    comment,    \* body of the progress comment on the tracker
    lastPush,   \* outcome of the last updateComment call
    apc,        \* position of Applier.Run
    aerr,       \* error Applier.Run returned
    asteps,     \* steps of Applier.Run completed so far
    ri,         \* index of the Rollout being applied or polled
    oi,         \* index of the object being applied or polled
    done,       \* the poll loop's done
    rodone,     \* applyAllParallel's rodone
    afails,     \* the tracker calls that failed in the last before/after step
    thread,     \* the comments on issue IssueNum, oldest first
    cid,        \* index in thread of the comment Applier.Run holds, 0 for none
    runs,       \* number of times Applier.Run was entered
    faults,     \* whether tracker, kubectl and cluster lookups may fail
    converged,  \* the applied objects whose workload has finished its rollout
    wl,         \* the workload a StatusViewer reads from the cluster
    sres,       \* (status, done, err) returned by the last StatusViewer.Status
    mcfg,       \* IssueManagerSpec: Label, OpenActions, StatusReporters
    mgr,        \* Manager.Issue, Manager.PullRequest, Manager.Commit and the
                \* reporters' computed Status, StatusIcon and Done
    mpc,        \* position of Manager.Run
    merr,       \* error Manager.Run returned
    mlog        \* what the last SyncToPRAndIssue did, whether its sub-loop
                \* has waited, and the number of process starts

pvars == <<cfg, mergeLog, issues, p, pre, ret, pc>>

\* what no step of Applier.Run writes
wvars == <<runs, faults, converged>>

avars == <<acfg, tracker, ros, comment, lastPush, apc, aerr, asteps, ri, oi, done, rodone,
           afails, thread, cid, wvars>>

svars == <<wl, sres>>

mvars == <<mcfg, mgr, mpc, merr, mlog>>

vars == <<cfg, mergeLog, issues, p, pre, ret, pc,
          acfg, tracker, ros, comment, lastPush, apc, aerr, asteps, ri, oi, done, rodone,
          afails, thread, cid, runs, faults, converged, wl, sres,
          mcfg, mgr, mpc, merr, mlog>>

\* ------------------------------------------------------------------------
\* Issues and issue bodies
\* ------------------------------------------------------------------------
\* A body is a sequence of tokens: the pull-request marker, the commit
\* marker, white space and other text.
TokPr(n) == [t |-> "pr", n |-> n, c |-> ""]
TokCommit(c) == [t |-> "commit", n |-> 0, c |-> c]
TokWs == [t |-> "ws", n |-> 0, c |-> ""]
TokText == [t |-> "text", n |-> 0, c |-> ""]

\* github.Issue.GetID / GetNumber / GetState / GetBody
LabelSet(issue) == Range(issue.labels)

\* rolloutRegex: \[pull-request\]: #(\d+)\s+\[commit\]: ([a-z0-9]+)\s+
RegexMatchAt(body, i) ==
    /\ i + 3 <= Len(body)
    /\ body[i].t = "pr"
    /\ body[i + 1].t = "ws"
    /\ body[i + 2].t = "commit"
    /\ body[i + 3].t = "ws"

rolloutRegexMatchString(body) == \E i \in 1..Len(body) : RegexMatchAt(body, i)

\* FindStringSubmatch: the leftmost match
rolloutRegexFind(body) ==
    LET i == CHOOSE k \in 1..Len(body) :
                 /\ RegexMatchAt(body, k)
                 /\ \A j \in 1..(k - 1) : ~RegexMatchAt(body, j)
    IN [pr |-> body[i].n, commit |-> body[i + 2].c]

\* ------------------------------------------------------------------------
\* Configurations and the environment's value domains
\* ------------------------------------------------------------------------
Crit(type, labels, assignee, milestone, state) ==
    [Type |-> type, MatchLabels |-> labels, MatchAssignee |-> assignee,
     MatchMilestone |-> milestone, MatchState |-> state]

\* Only the attributes the configured criteria read are varied.
LabelDom ==
    IF cfg.MatchLabels = <<>> THEN {<<>>}
    ELSE IF cfg.Type = "pr" THEN {<<>>, <<"l1">>, <<"l2">>, <<"l1", "l2">>, <<"l2", "l1">>}
    ELSE {<<>>, <<"l1">>}
AssigneeDom == IF cfg.MatchAssignee = "" THEN {{}} ELSE SUBSET {"u1", "u2"}
MilestoneDom == IF cfg.MatchMilestone = "" THEN {""} ELSE {"", "m1", "m2"}
StateDom == IF cfg.Type = "pr" /\ cfg.MatchState = "" THEN {"open"} ELSE {"open", "closed"}

GoodBody(n, c) == <<TokPr(n), TokWs, TokCommit(c), TokWs, TokText>>
BodyDom ==
    IF cfg.Type = "pr" THEN {<<>>}
    ELSE { GoodBody(7, "c1"),
           <<TokText, TokWs, TokPr(8), TokWs, TokCommit("c2"), TokWs>>,
           <<TokPr(7), TokWs, TokText>>,
           <<TokPr(7), TokWs, TokCommit("c1")>> }

\* ------------------------------------------------------------------------
\* Poller.SyncPRs
\* ------------------------------------------------------------------------
\* prRegex: ^([a-z0-9]+) .*Merge pull request #(\d+) from
prRegexMatch(l) == l.kind = "pr"

LabelsMatch_FirstOnly(issue) ==
    cfg.MatchLabels # <<>> => cfg.MatchLabels[1] \in LabelSet(issue)

LabelsMatch(issue) ==
    \A i \in DOMAIN cfg.MatchLabels : cfg.MatchLabels[i] \in LabelSet(issue)

AssigneeMatch(issue) ==
    cfg.MatchAssignee # "" => \E a \in issue.assignees : a = cfg.MatchAssignee

MilestoneMatch_Ignored(issue) == TRUE

MilestoneMatch(issue) ==
    cfg.MatchMilestone # "" => issue.milestone = cfg.MatchMilestone

MatchCriteria(issue) ==
    /\ LabelsMatch(issue)
    /\ AssigneeMatch(issue)
    /\ MilestoneMatch(issue)
    /\ cfg.MatchState # "" => (issue.state = cfg.MatchState \/ cfg.MatchState = "all")

Result(P, changed, err) == [p |-> P, changed |-> changed, err |-> err]

\* p.Issue = issue; pr, err := PullRequests.Get(num); p.Pr, p.Commit, p.IssueNum
AdoptPR(P, issue, l, prBad) ==
    IF prBad
    THEN Result([P EXCEPT !.Issue = issue], FALSE, "PullRequests.Get failed")
    ELSE Result([Issue |-> issue, Pr |-> l.num, Commit |-> l.commit, IssueNum |-> l.num],
                TRUE, ErrNone)

\* "No new issues": the scanned commit is the tracked one
IsTrackedCommit_Never(P, l) == FALSE

IsTrackedCommit_IfMatching(P, l) == l.commit = P.Commit /\ MatchCriteria(issues[l.num])

IsTrackedCommit(P, l) == l.commit = P.Commit

RECURSIVE ScanPRs(_, _, _, _)
\* the loop over the lines of the merge log, from line i on
ScanPRs(P, i, getBad, prBad) ==
    IF i > Len(mergeLog)
    THEN Result(P, FALSE, "no matching PRs found")
    ELSE LET l == mergeLog[i] IN
         IF ~prRegexMatch(l) THEN ScanPRs(P, i + 1, getBad, prBad)
         ELSE IF IsTrackedCommit(P, l) THEN Result(P, FALSE, ErrNone)
         ELSE IF l.num \in getBad THEN Result(P, FALSE, "Issues.Get failed")
         ELSE IF ~MatchCriteria(issues[l.num]) THEN ScanPRs(P, i + 1, getBad, prBad)
         ELSE AdoptPR(P, issues[l.num], l, prBad)

SyncPRs(P, gitBad, getBad, prBad) ==
    IF gitBad THEN Result(P, FALSE, ErrFetch)
    ELSE ScanPRs(P, 1, getBad, prBad)

\* ------------------------------------------------------------------------
\* Poller.SyncIssues
\* ------------------------------------------------------------------------
\* Issues.ListByRepo with State, Labels, Assignee, Milestone: the numbers of
\* the issues the tracker returns
ListByRepo ==
    { n \in DOMAIN issues : MatchCriteria(issues[n]) }

MaxOf(S) == CHOOSE n \in S : \A m \in S : m <= n

\* Sort created, Direction desc: element 0 of the listing
Newest == issues[MaxOf(ListByRepo)]

\* the body of the i == 0 iteration after "Set the new issue"
AdoptIssue(P, curr, prBad) ==
    LET P1 == [P EXCEPT !.Issue = curr] IN
    IF ~rolloutRegexMatchString(curr.body) THEN Result(P1, FALSE, ErrParse)
    ELSE LET m == rolloutRegexFind(curr.body) IN
         IF prBad THEN Result(P1, FALSE, "PullRequests.Get failed")
         ELSE Result([P1 EXCEPT !.Pr = m.pr, !.Commit = m.commit], TRUE, ErrNone)

IssueDone_NoClosedCheck(r) == r

\* "IssueNum is done": the check after the loop
IssueDone(r) ==
    IF r.err # ErrNone THEN r
    ELSE IF r.p.Issue.state = "closed" THEN Result(r.p, FALSE, ErrNone)
    ELSE r

SyncIssues(P, listBad, prBad) ==
    IF listBad THEN Result(P, FALSE, "ListByRepo failed")
    ELSE IF ListByRepo = {} THEN Result(P, FALSE, "no matching issues found")
    ELSE IF P.Issue.id # 0 /\ P.Issue.id = Newest.id
         THEN IssueDone(Result(P, FALSE, ErrNone))
         ELSE IssueDone(AdoptIssue(P, Newest, prBad))

\* ------------------------------------------------------------------------
\* Applier: data
\* ------------------------------------------------------------------------
\* errors returned by Applier.Run
ErrBefore == "beforeActions failed"
ErrComment == "updateComment failed"
ErrApply == "error applying"
ErrStatus == "error getting rollout status"
ErrAfter == "afterActions failed"

\* rollout.Object as created by ParseObject
NewObject(kind) ==
    [Kind |-> kind, ApplyStatus |-> "", RolloutStatus |-> "",
     RolloutStatusHistory |-> <<>>, Done |-> FALSE]

\* getRollout: Status "Pending", one object per document
getRollout(kinds, path) ==
    [Path |-> path, Status |-> "Pending",
     Objects |-> [i \in DOMAIN kinds |-> NewObject(kinds[i])]]

NilRos == [Status |-> "", Rollouts |-> <<>>]

\* the comment template: an object's history is printed only under a
\* non-empty rollout status
RenderObject(o) ==
    [Done |-> o.Done, Display |-> o.Kind, ApplyStatus |-> o.ApplyStatus,
     RolloutStatus |-> o.RolloutStatus,
     History |-> IF o.RolloutStatus # "" THEN o.RolloutStatusHistory ELSE <<>>]

RenderRollout(ro) ==
    [Path |-> ro.Path, Status |-> ro.Status,
     Objects |-> [i \in DOMAIN ro.Objects |-> RenderObject(ro.Objects[i])]]

\* issueTemplate.Execute: the body opens with a heading, not with the prefix
issueTemplateBody(R) ==
    [Prefix |-> FALSE, Status |-> R.Status,
     Rollouts |-> [i \in DOMAIN R.Rollouts |-> RenderRollout(R.Rollouts[i])]]

\* the body of the comment after issueTemplate.Execute and
\* GitManager.UpdateComment, which puts the prefix in front of a body that
\* does not begin with it
Render(R) ==
    LET body == issueTemplateBody(R)
    IN IF body.Prefix THEN body ELSE [body EXCEPT !.Prefix = TRUE]

NoComment == [Prefix |-> FALSE, Status |-> "", Rollouts |-> <<>>]
\* the body GetComment creates: the prefix alone
PrefixComment == [Prefix |-> TRUE, Status |-> "", Rollouts |-> <<>>]

NilTracker == [labels |-> {}, assignees |-> {}, state |-> "open"]
NilFails == [step |-> "", fails |-> {}, tr |-> NilTracker]
\* an *int32 field: <<>> for nil, <<n>> for a pointer to n
NilPtr == <<>>
Ptr(n) == <<n>>

\* the fields of appsv1.Deployment, DaemonSet and StatefulSet that the
\* StatusViewers read, zero-valued
NilWorkload ==
    [kind |-> "", generation |-> 0, observed |-> 0,
     replicas |-> NilPtr, updated |-> 0, total |-> 0, available |-> 0, ready |-> 0,
     desired |-> 0, current |-> 0,
     conds |-> <<>>, revision |-> "",
     strategy |-> "", rollingUpdate |-> FALSE, partition |-> NilPtr,
     updateRevision |-> "", currentRevision |-> ""]

\* (string, bool, error) as returned by StatusViewer.Status: the message's
\* format, its arguments after the name, done, and the error ("" for nil)
StatusResult(msg, args, d, err) == [msg |-> msg, args |-> args, done |-> d, err |-> err]

\* no call of a StatusViewer yet
NilStatus ==
    [called |-> FALSE, revision |-> 0, got |-> FALSE,
     msg |-> "", args |-> <<>>, done |-> FALSE, err |-> ""]

\* no StatusViewer is examined on its own
SIdle ==
    /\ wl = NilWorkload
    /\ sres = NilStatus

\* the Manager before Run: no issue, no pull request, no commit
NilM == [Issue |-> NilPtr, PullRequest |-> NilPtr, Commit |-> "", StatusReporters |-> <<>>]

\* the Manager while another component is examined on its own
MIdle ==
    /\ mcfg = [Label |-> "", AddLabels |-> <<>>, AddAssignees |-> <<>>]
    /\ mgr = NilM
    /\ mpc = "idle"
    /\ merr = ErrNone
    /\ mlog = [sync |-> "", failed |-> FALSE, waited |-> FALSE, starts |-> 0]

\* the Applier before Run is called
AIdle ==
    /\ acfg = [RolloutType |-> "", Shape |-> <<>>,
               BeforeAddLabels |-> <<>>, BeforeRemoveLabels |-> <<>>,
               BeforeAddAssignees |-> <<>>, BeforeRemoveAssignees |-> <<>>,
               BeforeSetState |-> "",
               AfterAddLabels |-> <<>>, AfterRemoveLabels |-> <<>>,
               AfterAddAssignees |-> <<>>, AfterRemoveAssignees |-> <<>>,
               AfterSetState |-> ""]
    /\ tracker = NilTracker
    /\ ros = NilRos
    /\ comment = NoComment
    /\ lastPush = "none"
    /\ apc = "idle"
    /\ aerr = ErrNone
    /\ asteps = {}
    /\ ri = 0
    /\ oi = 0
    /\ done = FALSE
    /\ rodone = FALSE
    /\ afails = NilFails
    /\ thread = <<>>
    /\ cid = 0
    /\ runs = 0
    /\ faults = TRUE
    /\ converged = {}

\* ------------------------------------------------------------------------
\* Poller.Run
\* ------------------------------------------------------------------------
NilP ==
    [Issue |-> [id |-> 0, number |-> 0, labels |-> <<>>, assignees |-> {},
                milestone |-> "", state |-> "", body |-> <<>>],
     Pr |-> 0, Commit |-> "", IssueNum |-> 0]
NilRet == [changed |-> FALSE, err |-> ErrNone]

InitPoller ==
    /\ cfg \in { Crit("pr", <<>>, "", "", ""),
                 Crit("pr", <<"l1">>, "", "", ""),
                 Crit("pr", <<"l2", "l1">>, "", "", ""),
                 Crit("pr", <<>>, "u1", "", ""),
                 Crit("pr", <<>>, "", "m1", ""),
                 Crit("pr", <<>>, "", "", "open"),
                 Crit("pr", <<>>, "", "", "all"),
                 Crit("pr", <<"l1">>, "", "", "closed"),
                 Crit("pr", <<>>, "u1", "m1", ""),
                 Crit("issue", <<>>, "", "", ""),
                 Crit("issue", <<"l1">>, "", "", "open"),
                 Crit("issue", <<>>, "", "", "all") }
    /\ mergeLog = <<>>
    /\ issues = <<>>
    /\ p = NilP
    /\ pre = NilP
    /\ ret = NilRet
    /\ pc = "clone"
    /\ AIdle
    /\ SIdle
    /\ MIdle

\* p.GitClient.Clone()
RunClone ==
    /\ pc = "clone"
    /\ \E ok \in BOOLEAN : pc' = IF ok THEN "sync" ELSE "returned"
    /\ UNCHANGED <<cfg, mergeLog, issues, p, pre, ret>>
    /\ UNCHANGED <<avars, svars, mvars>>

\* the switch on p.Type
RunSync ==
    /\ pc = "sync"
    /\ \E bad1 \in BOOLEAN, prBad \in BOOLEAN, getBad \in {{}} \cup {{n} : n \in DOMAIN issues} :
          LET r == IF cfg.Type = "pr" THEN SyncPRs(p, bad1, getBad, prBad)
                   ELSE SyncIssues(p, bad1, prBad)
          IN /\ pre' = p
             /\ p' = r.p
             /\ ret' = [changed |-> r.changed, err |-> r.err]
    /\ pc' = "synced"
    /\ UNCHANGED <<cfg, mergeLog, issues>>
    /\ UNCHANGED <<avars, svars, mvars>>

RunNext_ParseErrorFatal(r) ==
    IF r.err = ErrParse THEN "returned"
    ELSE IF r.err # ErrNone THEN "sleep"
    ELSE IF ~r.changed THEN "sleep"
    ELSE "apply"

\* what Run does with (newCommit, err)
RunNext(r) ==
    IF r.err # ErrNone THEN "sleep"
    ELSE IF ~r.changed THEN "sleep"
    ELSE "apply"

RunDecide_ApplyUnchanged ==
    /\ pc = "synced"
    /\ pc' = IF ret.err # ErrNone THEN "sleep" ELSE "apply"
    /\ pre' = NilP
    /\ ret' = NilRet
    /\ UNCHANGED <<cfg, mergeLog, issues, p>>
    /\ UNCHANGED <<avars, svars, mvars>>

\* pre and ret are the locals of one iteration: they are dropped here
RunDecide ==
    /\ pc = "synced"
    /\ pc' = RunNext(ret)
    /\ pre' = NilP
    /\ ret' = NilRet
    /\ UNCHANGED <<cfg, mergeLog, issues, p>>
    /\ UNCHANGED <<avars, svars, mvars>>

RunApply_ErrorReturns ==
    /\ pc = "apply"
    /\ p' = [p EXCEPT !.IssueNum = p.Issue.number]
    /\ \E ok \in BOOLEAN : pc' = IF ok THEN "sleep" ELSE "returned"
    /\ UNCHANGED <<cfg, mergeLog, issues, pre, ret>>
    /\ UNCHANGED <<avars, svars, mvars>>

\* Poller.Apply: the error of the rollout is only logged
RunApply ==
    /\ pc = "apply"
    /\ p' = [p EXCEPT !.IssueNum = p.Issue.number]
    /\ \E ok \in BOOLEAN : pc' = "sleep"
    /\ UNCHANGED <<cfg, mergeLog, issues, pre, ret>>
    /\ UNCHANGED <<avars, svars, mvars>>

RunSleep ==
    /\ pc = "sleep"
    /\ pc' = "sync"
    /\ UNCHANGED <<cfg, mergeLog, issues, p, pre, ret>>
    /\ UNCHANGED <<avars, svars, mvars>>

\* ------------------------------------------------------------------------
\* Environment of the poller: the repository and the tracker
\* ------------------------------------------------------------------------
NewIssue(n, labels, assignees, milestone, state, body) ==
    [id |-> n, number |-> n, labels |-> labels, assignees |-> assignees,
     milestone |-> milestone, state |-> state, body |-> body]

\* a merge commit reaches origin/master
Merge ==
    /\ pc = "sleep"
    /\ cfg.Type = "pr"
    /\ Len(mergeLog) < MaxLog
    /\ LET i == Len(mergeLog) + 1
           c == IF i = 1 THEN "c1" ELSE IF i = 2 THEN "c2" ELSE IF i = 3 THEN "c3" ELSE "c4"
           n == Len(issues) + 1
       IN \/ /\ mergeLog' = <<[commit |-> c, kind |-> "other", num |-> 0]>> \o mergeLog
             /\ UNCHANGED issues
          \/ /\ mergeLog' = <<[commit |-> c, kind |-> "pr", num |-> n]>> \o mergeLog
             /\ \E ls \in LabelDom, as \in AssigneeDom, ms \in MilestoneDom, st \in StateDom :
                   issues' = Append(issues, NewIssue(n, ls, as, ms, st, <<>>))
    /\ UNCHANGED <<cfg, p, pre, ret, pc>>
    /\ UNCHANGED <<avars, svars, mvars>>

\* somebody opens an issue
OpenIssue ==
    /\ pc = "sleep"
    /\ cfg.Type = "issue"
    /\ Len(issues) < MaxIssues
    /\ \E ls \in LabelDom, b \in BodyDom :
          issues' = Append(issues, NewIssue(Len(issues) + 1, ls, {}, "", "open", b))
    /\ UNCHANGED <<cfg, mergeLog, p, pre, ret, pc>>
    /\ UNCHANGED <<avars, svars, mvars>>

\* somebody edits an issue or pull request
EditIssue ==
    /\ pc = "sleep"
    /\ \E n \in DOMAIN issues :
          \/ \E ls \in LabelDom : issues' = [issues EXCEPT ![n].labels = ls]
          \/ \E as \in AssigneeDom : issues' = [issues EXCEPT ![n].assignees = as]
          \/ \E ms \in MilestoneDom : issues' = [issues EXCEPT ![n].milestone = ms]
          \/ \E st \in StateDom : issues' = [issues EXCEPT ![n].state = st]
          \/ \E b \in BodyDom : issues' = [issues EXCEPT ![n].body = b]
    /\ issues' # issues
    /\ UNCHANGED <<cfg, mergeLog, p, pre, ret, pc>>
    /\ UNCHANGED <<avars, svars, mvars>>

NextPoller ==
    \/ RunClone
    \/ RunSync
    \/ RunDecide
    \/ RunApply
    \/ RunSleep
    \/ Merge
    \/ OpenIssue
    \/ EditIssue

SpecPoller == InitPoller /\ [][NextPoller]_vars

\* ------------------------------------------------------------------------
\* Applier: before and after actions
\* ------------------------------------------------------------------------
ActionResult(tr, err) == [tr |-> tr, err |-> err]

\* GitManager.AddLabels / AddAssignees / UpdateIssueState
AddLabels(tr, labels) == [tr EXCEPT !.labels = @ \cup Range(labels)]
AddAssignees(tr, as) == [tr EXCEPT !.assignees = @ \cup Range(as)]
RemoveAssignees(tr, as) == [tr EXCEPT !.assignees = @ \ Range(as)]
UpdateIssueState(tr, st) == [tr EXCEPT !.state = st]

RECURSIVE RemoveLabels(_, _, _, _)
\* GitManager.RemoveLabels: one call per label, returning at the first
\* error; the tracker refuses to remove a label the issue does not carry
RemoveLabels(tr, labels, i, bad) ==
    IF i > Len(labels) THEN ActionResult(tr, FALSE)
    ELSE IF labels[i] \notin tr.labels \/ bad THEN ActionResult(tr, TRUE)
    ELSE RemoveLabels([tr EXCEPT !.labels = @ \ {labels[i]}], labels, i + 1, bad)

\* Applier.beforeActions
beforeActions(tr, fails) ==
    IF Len(acfg.BeforeAddLabels) > 0 /\ "AddLabels" \in fails THEN ActionResult(tr, TRUE)
    ELSE LET t1 == IF Len(acfg.BeforeAddLabels) > 0 THEN AddLabels(tr, acfg.BeforeAddLabels) ELSE tr
             t2 == RemoveLabels(t1, acfg.BeforeRemoveLabels, 1, "RemoveLabels" \in fails).tr
         IN IF Len(acfg.BeforeAddAssignees) > 0 /\ "AddAssignees" \in fails THEN ActionResult(t2, TRUE)
            ELSE LET t3 == IF Len(acfg.BeforeAddAssignees) > 0
                           THEN AddAssignees(t2, acfg.BeforeAddAssignees) ELSE t2
                     t4 == IF "RemoveAssignees" \in fails THEN t3
                           ELSE RemoveAssignees(t3, acfg.BeforeRemoveAssignees)
                 IN IF acfg.BeforeSetState = "" THEN ActionResult(t4, FALSE)
                    ELSE IF "UpdateIssueState" \in fails THEN ActionResult(t4, TRUE)
                    ELSE ActionResult(UpdateIssueState(t4, acfg.BeforeSetState), FALSE)

afterActions_AssigneesBestEffort(tr, fails) ==
    IF Len(acfg.AfterAddLabels) > 0 /\ "AddLabels" \in fails THEN ActionResult(tr, TRUE)
    ELSE LET t1 == IF Len(acfg.AfterAddLabels) > 0 THEN AddLabels(tr, acfg.AfterAddLabels) ELSE tr
             t2 == RemoveLabels(t1, acfg.AfterRemoveLabels, 1, "RemoveLabels" \in fails).tr
             t3 == IF Len(acfg.AfterAddAssignees) > 0 /\ "AddAssignees" \notin fails
                   THEN AddAssignees(t2, acfg.AfterAddAssignees) ELSE t2
             t4 == IF "RemoveAssignees" \in fails THEN t3
                   ELSE RemoveAssignees(t3, acfg.AfterRemoveAssignees)
         IN IF acfg.AfterSetState = "" THEN ActionResult(t4, FALSE)
            ELSE IF "UpdateIssueState" \in fails THEN ActionResult(t4, TRUE)
            ELSE ActionResult(UpdateIssueState(t4, acfg.AfterSetState), FALSE)

\* Applier.afterActions
afterActions(tr, fails) ==
    IF Len(acfg.AfterAddLabels) > 0 /\ "AddLabels" \in fails THEN ActionResult(tr, TRUE)
    ELSE LET t1 == IF Len(acfg.AfterAddLabels) > 0 THEN AddLabels(tr, acfg.AfterAddLabels) ELSE tr
             t2 == RemoveLabels(t1, acfg.AfterRemoveLabels, 1, "RemoveLabels" \in fails).tr
         IN IF Len(acfg.AfterAddAssignees) > 0 /\ "AddAssignees" \in fails THEN ActionResult(t2, TRUE)
            ELSE LET t3 == IF Len(acfg.AfterAddAssignees) > 0
                           THEN AddAssignees(t2, acfg.AfterAddAssignees) ELSE t2
                     t4 == IF "RemoveAssignees" \in fails THEN t3
                           ELSE RemoveAssignees(t3, acfg.AfterRemoveAssignees)
                 IN IF acfg.AfterSetState = "" THEN ActionResult(t4, FALSE)
                    ELSE IF "UpdateIssueState" \in fails THEN ActionResult(t4, TRUE)
                    ELSE ActionResult(UpdateIssueState(t4, acfg.AfterSetState), FALSE)

\* ------------------------------------------------------------------------
\* Applier.Run
\* ------------------------------------------------------------------------
\* the types GetStatusViewer has a StatusViewer for, and two it has none
\* for: a typed object of another kind and an unstructured.Unstructured
ViewerKinds == {"Deployment", "StatefulSet", "DaemonSet"}

Acfg(type, shape) ==
    [RolloutType |-> type, Shape |-> shape,
     BeforeAddLabels |-> <<"rolling">>, BeforeRemoveLabels |-> <<"queued", "approved">>,
     BeforeAddAssignees |-> <<"bot">>, BeforeRemoveAssignees |-> <<"dev">>,
     BeforeSetState |-> "",
     AfterAddLabels |-> <<"rolled">>, AfterRemoveLabels |-> <<"rolling">>,
     AfterAddAssignees |-> <<"qa">>, AfterRemoveAssignees |-> <<"bot">>,
     AfterSetState |-> "closed"]

\* both policies over the documents kustomize renders for each target path
AConfigs ==
    {Acfg(t, sh) : t \in {"sequential", "parallel"},
                   sh \in { << <<"Deployment", "ConfigMap">>, <<"Deployment">> >>,
                            << <<"Deployment", "Deployment">>, <<"Deployment">> >>,
                            << <<"Deployment">>, <<"Deployment">> >>,
                            << <<"ConfigMap">>, <<"Deployment">> >>,
                            << <<"Deployment", "StatefulSet">>, <<"DaemonSet">> >>,
                            << <<"Unstructured", "ConfigMap">>, <<"Unstructured">> >> }}

TrackerInits ==
    { [labels |-> {"queued", "approved"}, assignees |-> {"dev"}, state |-> "open"],
      [labels |-> {"approved"}, assignees |-> {}, state |-> "open"] }

\* the Poller while the Applier is examined on its own
PIdle ==
    /\ cfg = Crit("pr", <<>>, "", "", "")
    /\ mergeLog = <<>>
    /\ issues = <<>>
    /\ p = NilP
    /\ pre = NilP
    /\ ret = NilRet
    /\ pc = "apply"

\* Applier.Run is entered: nothing rendered, no comment held
AStart ==
    /\ ros = NilRos
    /\ lastPush = "none"
    /\ apc = "sync"
    /\ aerr = ErrNone
    /\ asteps = {}
    /\ ri = 0
    /\ oi = 0
    /\ done = FALSE
    /\ rodone = FALSE
    /\ afails = NilFails
    /\ cid = 0

InitApplier ==
    /\ PIdle
    /\ SIdle
    /\ MIdle
    /\ acfg \in AConfigs
    /\ tracker \in TrackerInits
    /\ AStart
    /\ comment = NoComment
    /\ thread = <<>>
    /\ runs = 1
    /\ faults = TRUE
    /\ converged = {}

Sequential == acfg.RolloutType = "sequential" \/ acfg.RolloutType = ""
NRo == Len(ros.Rollouts)
NObj(r) == Len(ros.Rollouts[r].Objects)
Obj(r, o) == ros.Rollouts[r].Objects[o]

\* return err
Return(err) ==
    /\ apc' = "returned"
    /\ aerr' = err

\* outcomes of a call to the tracker or to kubectl: it may fail unless the
\* run is examined without faults
Oks == IF faults THEN BOOLEAN ELSE {TRUE}
\* the tracker calls that may fail in one run of the actions: at most one
Failures ==
    IF faults
    THEN {{}} \cup {{c} : c \in {"AddLabels", "RemoveLabels", "AddAssignees",
                                  "RemoveAssignees", "UpdateIssueState"}}
    ELSE {{}}

\* a.updateComment: EditComment replaces the body of the comment held,
\* in place, when it succeeds
updateComment(R, ok) ==
    /\ comment' = IF ok THEN Render(R) ELSE comment
    /\ thread' = IF ok THEN [thread EXCEPT ![cid].Prefix = Render(R).Prefix] ELSE thread
    /\ lastPush' = IF ok THEN "ok" ELSE "failed"

\* a.User, the login the access token belongs to, and another account
User == "rollout-bot"
OtherUser == "dev"
NewComment(user, prefix) == [user |-> user, Prefix |-> prefix]

GetCommentMatch_AnyUser(c) == c.Prefix

\* madeByUs && hasPrefix
GetCommentMatch(c) == c.user = User /\ c.Prefix

\* the first comment of the listing that GetComment returns, 0 for none
FindComment(th) ==
    LET m == {i \in DOMAIN th : GetCommentMatch(th[i])}
    IN IF m = {} THEN 0 ELSE CHOOSE i \in m : \A j \in m : i <= j

\* a.GitClient.SyncRepo()
ASyncRepo ==
    /\ apc = "sync"
    /\ \E ok \in Oks :
          IF ok THEN apc' = "before" /\ asteps' = asteps \cup {"sync"} /\ UNCHANGED aerr
          ELSE Return("SyncRepo failed") /\ UNCHANGED asteps
    /\ UNCHANGED <<acfg, cid, afails, tracker, ros, comment, thread, lastPush, ri, oi, done, rodone>>
    /\ UNCHANGED <<pvars, wvars, svars, mvars>>

\* a.beforeActions()
ABefore ==
    /\ apc = "before"
    /\ \E fails \in Failures :
          LET r == beforeActions(tracker, fails) IN
          /\ tracker' = r.tr
          /\ afails' = [step |-> "before", fails |-> fails, tr |-> tracker]
          /\ IF r.err THEN Return(ErrBefore) /\ UNCHANGED asteps
             ELSE apc' = "getcomment" /\ asteps' = asteps \cup {"before"} /\ UNCHANGED aerr
    /\ UNCHANGED <<acfg, cid, ros, comment, thread, lastPush, ri, oi, done, rodone>>
    /\ UNCHANGED <<pvars, wvars, svars, mvars>>

\* a.GitClient.GetComment: the comment is found, or created with the prefix
AGetComment ==
    /\ apc = "getcomment"
    /\ \E ok \in Oks :
          IF ok
          THEN /\ IF FindComment(thread) # 0
                  THEN cid' = FindComment(thread) /\ UNCHANGED <<comment, thread>>
                  ELSE /\ thread' = Append(thread, NewComment(User, TRUE))
                       /\ cid' = Len(thread) + 1
                       /\ comment' = PrefixComment
               /\ apc' = "render"
               /\ asteps' = asteps \cup {"comment"}
               /\ UNCHANGED aerr
          ELSE Return("GetComment failed") /\ UNCHANGED <<comment, thread, cid, asteps>>
    /\ UNCHANGED <<acfg, afails, tracker, ros, lastPush, ri, oi, done, rodone>>
    /\ UNCHANGED <<pvars, wvars, svars, mvars>>

\* the loop over ApplyTargets: kustomize and getRollout
ARender ==
    /\ apc = "render"
    /\ \E ok \in Oks :
          IF ok
          THEN /\ ros' = [Status |-> "In Progress",
                          Rollouts |-> [i \in DOMAIN acfg.Shape |-> getRollout(acfg.Shape[i], i)]]
               /\ apc' = "push0"
               /\ asteps' = asteps \cup {"render"}
               /\ UNCHANGED aerr
          ELSE Return("kustomize or ParseObject failed") /\ UNCHANGED <<ros, asteps>>
    /\ UNCHANGED <<acfg, cid, afails, tracker, comment, thread, lastPush, ri, oi, done, rodone>>
    /\ UNCHANGED <<pvars, wvars, svars, mvars>>

APushPending_IgnoreError ==
    /\ apc = "push0"
    /\ \E ok \in Oks :
          /\ updateComment(ros, ok)
          /\ apc' = "apply"
          /\ asteps' = asteps \cup {"push0"}
          /\ ri' = 1
          /\ oi' = 1
          /\ UNCHANGED aerr
    /\ UNCHANGED <<acfg, cid, afails, tracker, ros, done, rodone>>
    /\ UNCHANGED <<pvars, wvars, svars, mvars>>

\* the first updateComment, then the choice of the policy
APushPending ==
    /\ apc = "push0"
    /\ \E ok \in Oks :
          /\ updateComment(ros, ok)
          /\ IF ok
             THEN /\ apc' = "apply"
                  /\ asteps' = asteps \cup {"push0"}
                  /\ ri' = 1
                  /\ oi' = 1
                  /\ UNCHANGED aerr
             ELSE Return(ErrComment) /\ UNCHANGED <<asteps, ri, oi>>
    /\ UNCHANGED <<acfg, cid, afails, tracker, ros, done, rodone>>
    /\ UNCHANGED <<pvars, wvars, svars, mvars>>

ApplyPhaseDone_PerRollout(r, o) == o = NObj(r)

\* the apply loop is over: after the last object of the Rollout under the
\* sequential policy, after the last object of the last Rollout otherwise
ApplyPhaseDone(r, o) == o = NObj(r) /\ (Sequential \/ r = NRo)

ApplyFailure_NoPush(R, pushOk) ==
    /\ UNCHANGED <<comment, thread, lastPush>>
    /\ Return(ErrApply)
    /\ UNCHANGED <<ri, oi>>

\* err != nil after kubectl apply: one updateComment whose result is
\* dropped, then return
ApplyFailure(R, pushOk) ==
    /\ updateComment(R, pushOk)
    /\ Return(ErrApply)
    /\ UNCHANGED <<ri, oi>>

\* kubectl apply of object (ri, oi)
AApply ==
    /\ apc = "apply"
    /\ \E ok \in Oks, pushOk \in Oks :
          LET r1 == IF oi = 1 THEN [ros EXCEPT !.Rollouts[ri].Status = "In Progress"] ELSE ros
              out == IF ok THEN "configured" ELSE "error from server"
              r2 == [r1 EXCEPT !.Rollouts[ri].Objects[oi].ApplyStatus = out]
          IN /\ ros' = r2
             /\ IF ~ok
                THEN ApplyFailure(r2, pushOk)
                ELSE /\ UNCHANGED <<comment, thread, lastPush, aerr>>
                     /\ IF ApplyPhaseDone(ri, oi) THEN apc' = "pushApplied" /\ UNCHANGED <<ri, oi>>
                        ELSE IF oi < NObj(ri) THEN oi' = oi + 1 /\ UNCHANGED <<ri, apc>>
                        ELSE ri' = ri + 1 /\ oi' = 1 /\ UNCHANGED apc
    /\ UNCHANGED <<acfg, cid, afails, tracker, asteps, done, rodone>>
    /\ UNCHANGED <<pvars, wvars, svars, mvars>>

\* the updateComment after the apply loop; the poll loop starts
APushApplied ==
    /\ apc = "pushApplied"
    /\ \E ok \in Oks :
          /\ updateComment(ros, ok)
          /\ IF ok
             THEN /\ apc' = "poll"
                  /\ ri' = IF Sequential THEN ri ELSE 1
                  /\ oi' = 1
                  /\ done' = TRUE
                  /\ rodone' = TRUE
                  /\ UNCHANGED aerr
             ELSE Return(ErrComment) /\ UNCHANGED <<ri, oi, done, rodone>>
    /\ UNCHANGED <<acfg, cid, afails, tracker, ros, asteps>>
    /\ UNCHANGED <<pvars, wvars, svars, mvars>>

\* what viewer.Status can answer when the lookup succeeds
StatusResults ==
    { [status |-> "Waiting for rollout to finish", d |-> FALSE],
      [status |-> "successfully rolled out", d |-> TRUE] }

\* on a failed lookup the viewers return "", false, err
StatusError == [status |-> "", d |-> FALSE]
\* for an update strategy without a status the DaemonSet and StatefulSet
\* viewers return "", true, err
StatusUnsupported == [status |-> "", d |-> TRUE]
ErrorText == "error: lookup failed"

\* what viewer.Status answers for object x: any answer or a failure, or,
\* in a run without faults, done exactly when the workload has converged
Answers(x) ==
    IF faults
    THEN StatusResults \cup {StatusError} \cup
         (IF Obj(x[1], x[2]).Kind \in {"DaemonSet", "StatefulSet"} THEN {StatusUnsupported} ELSE {})
    ELSE {r \in StatusResults : r.d = (x \in converged)}

LoopDone_Stuck(dn, d) == FALSE

\* if !d { done = false; rodone = false }
LoopDone(dn, d) == dn /\ d

HasViewer_Always(o) == TRUE

\* rollout.GetStatusViewer(o.Object, a.K8sClient) != nil
HasViewer(o) == o.Kind \in ViewerKinds

\* o.Done after a status call: d in applyAllSequential, the loop's done in
\* applyAllParallel
ObjectDone(d, loopDone) == IF Sequential THEN d ELSE loopDone

MarkRollout_Skip(R, r, rdn) == R

\* if rodone { ro.Status = "Complete" } after the objects of Rollout r in
\* applyAllParallel
MarkRollout(R, r, rdn) ==
    IF rdn THEN [R EXCEPT !.Rollouts[r].Status = "Complete"] ELSE R

\* the end of the poll loop's body for object (ri, oi), with the Rollouts R
\* and the loop variables dn and rdn
PollAdvance(R, dn, rdn) ==
    /\ done' = dn
    /\ rodone' = rdn
    /\ IF oi < NObj(ri)
       THEN ros' = R /\ oi' = oi + 1 /\ UNCHANGED <<ri, apc>>
       ELSE IF Sequential
       THEN ros' = R /\ apc' = "pushPass" /\ UNCHANGED <<ri, oi>>
       ELSE /\ ros' = MarkRollout(R, ri, rdn)
            /\ IF ri < NRo
               THEN ri' = ri + 1 /\ oi' = 1 /\ UNCHANGED apc
               ELSE apc' = "pushPass" /\ UNCHANGED <<ri, oi>>

StatusFailure_NoText(R, pushOk) ==
    /\ ros' = R
    /\ updateComment(ros', pushOk)
    /\ Return(ErrStatus)
    /\ UNCHANGED <<ri, oi, done, rodone>>

\* err != nil after viewer.Status: the error becomes the object's rollout
\* status, one updateComment whose result is dropped, then return
StatusFailure(R, pushOk) ==
    /\ ros' = [R EXCEPT !.Rollouts[ri].Objects[oi].RolloutStatus = ErrorText]
    /\ updateComment(ros', pushOk)
    /\ Return(ErrStatus)
    /\ UNCHANGED <<ri, oi, done, rodone>>

RecordStatus_Overwrite(o, status) ==
    [o EXCEPT !.RolloutStatus = status, !.RolloutStatusHistory = <<status>>]

\* if o.RolloutStatus != status: the message is stored and a line for it is
\* appended to the history (the line's timestamp is left out)
RecordStatus(o, status) ==
    [o EXCEPT !.RolloutStatus = status,
              !.RolloutStatusHistory = Append(@, status)]

\* one iteration of the poll loop's body: object (ri, oi)
APoll ==
    /\ apc = "poll"
    /\ LET o == Obj(ri, oi) IN
       IF ~HasViewer(o)
       THEN /\ PollAdvance([ros EXCEPT !.Rollouts[ri].Objects[oi].RolloutStatus = "NA",
                                       !.Rollouts[ri].Objects[oi].Done = TRUE], done, rodone)
            /\ UNCHANGED <<comment, thread, lastPush, aerr>>
       ELSE \E res \in Answers(<<ri, oi>>), pushOk \in Oks :
            LET r1 == [ros EXCEPT !.Rollouts[ri].Objects[oi].Done = ObjectDone(res.d, done)]
                changed == o.RolloutStatus # res.status
                r2 == IF changed
                      THEN [r1 EXCEPT !.Rollouts[ri].Objects[oi] = RecordStatus(@, res.status)]
                      ELSE r1
            IN IF res \in {StatusError, StatusUnsupported}
               THEN StatusFailure(r1, pushOk)
               ELSE /\ changed => Len(o.RolloutStatusHistory) < MaxHistory
                    /\ IF changed /\ ~pushOk
                       THEN /\ ros' = r2
                            /\ updateComment(r2, FALSE)
                            /\ Return(ErrComment)
                            /\ UNCHANGED <<ri, oi, done, rodone>>
                       ELSE /\ IF changed THEN updateComment(r2, TRUE)
                               ELSE UNCHANGED <<comment, thread, lastPush>>
                            /\ PollAdvance(r2, LoopDone(done, res.d), LoopDone(rodone, res.d))
                            /\ UNCHANGED aerr
    /\ UNCHANGED <<acfg, cid, afails, tracker, asteps>>
    /\ UNCHANGED <<pvars, wvars, svars, mvars>>

PollAgain_Never(dn) == FALSE

\* for !done
PollAgain(dn) == ~dn

\* the updateComment that ends a pass of the poll loop
APushPass ==
    /\ apc = "pushPass"
    /\ \E ok \in Oks :
          /\ updateComment(ros, ok)
          /\ IF ~ok
             THEN Return(ErrComment) /\ UNCHANGED <<ros, ri, oi, done, rodone>>
             ELSE IF PollAgain(done)
             THEN /\ apc' = "poll"
                  /\ ri' = IF Sequential THEN ri ELSE 1
                  /\ oi' = 1
                  /\ done' = TRUE
                  /\ rodone' = TRUE
                  /\ UNCHANGED <<ros, aerr>>
             ELSE IF Sequential
             THEN /\ ros' = [ros EXCEPT !.Rollouts[ri].Status = "Complete"]
                  /\ IF ri < NRo
                     THEN apc' = "apply" /\ ri' = ri + 1 /\ oi' = 1
                     ELSE apc' = "complete" /\ UNCHANGED <<ri, oi>>
                  /\ UNCHANGED <<aerr, done, rodone>>
             ELSE /\ apc' = "complete"
                  /\ UNCHANGED <<ros, aerr, ri, oi, done, rodone>>
    /\ UNCHANGED <<acfg, cid, afails, tracker, asteps>>
    /\ UNCHANGED <<pvars, wvars, svars, mvars>>

\* ros.Status = "Complete" and the updateComment that follows
AComplete ==
    /\ apc = "complete"
    /\ ros' = [ros EXCEPT !.Status = "Complete"]
    /\ \E ok \in Oks :
          /\ updateComment(ros', ok)
          /\ IF ok THEN apc' = "after" /\ asteps' = asteps \cup {"complete"} /\ UNCHANGED aerr
             ELSE Return(ErrComment) /\ UNCHANGED asteps
    /\ UNCHANGED <<acfg, cid, afails, tracker, ri, oi, done, rodone>>
    /\ UNCHANGED <<pvars, wvars, svars, mvars>>

\* a.afterActions()
AAfter ==
    /\ apc = "after"
    /\ \E fails \in Failures :
          LET r == afterActions(tracker, fails) IN
          /\ tracker' = r.tr
          /\ afails' = [step |-> "after", fails |-> fails, tr |-> tracker]
          /\ asteps' = asteps \cup {"after"}
          /\ Return(IF r.err THEN ErrAfter ELSE ErrNone)
    /\ UNCHANGED <<acfg, cid, ros, comment, thread, lastPush, ri, oi, done, rodone>>
    /\ UNCHANGED <<pvars, wvars, svars, mvars>>

NextApplier ==
    \/ ASyncRepo
    \/ ABefore
    \/ AGetComment
    \/ ARender
    \/ APushPending
    \/ AApply
    \/ APushApplied
    \/ APoll
    \/ APushPass
    \/ AComplete
    \/ AAfter

SpecApplier == InitApplier /\ [][NextApplier]_vars

\* ------------------------------------------------------------------------
\* Applier.Run against a tracker and a cluster that do not fail
\* ------------------------------------------------------------------------
InitConverge ==
    /\ PIdle
    /\ SIdle
    /\ MIdle
    /\ acfg \in AConfigs
    /\ tracker \in TrackerInits
    /\ AStart
    /\ comment = NoComment
    /\ thread = <<>>
    /\ runs = 1
    /\ faults = FALSE
    /\ converged = {}

\* the cluster: the workload of an applied object finishes its rollout, and
\* viewer.Status answers done for it from then on
Converge ==
    /\ ~faults
    /\ apc \in {"apply", "pushApplied", "poll", "pushPass"}
    /\ \E r \in 1..NRo : \E o \in 1..NObj(r) :
          /\ Obj(r, o).ApplyStatus = "configured"
          /\ HasViewer(Obj(r, o))
          /\ <<r, o>> \notin converged
          /\ converged' = converged \cup {<<r, o>>}
    /\ UNCHANGED <<acfg, tracker, ros, comment, lastPush, apc, aerr, asteps, ri, oi, done, rodone,
                   afails, thread, cid, runs, faults>>
    /\ UNCHANGED <<pvars, svars, mvars>>

NextConverge ==
    \/ NextApplier
    \/ Converge

\* Run keeps taking steps (its pauses are finite), and every applied
\* workload finishes its rollout at some time
SpecConverge ==
    InitConverge /\ [][NextConverge]_vars /\ WF_vars(NextApplier) /\ WF_vars(Converge)

\* ------------------------------------------------------------------------
\* Applier.Run called again and again for the same issue
\* ------------------------------------------------------------------------
\* one target path with a Deployment and a ConfigMap, under both policies;
\* the comments on the issue when Run is first entered: none, another
\* account's comment that begins with the prefix, a comment of a.User that
\* does not, or the progress comment an earlier process created
InitRuns ==
    /\ PIdle
    /\ SIdle
    /\ MIdle
    /\ acfg \in {Acfg(t, << <<"Deployment", "ConfigMap">> >>) : t \in {"sequential", "parallel"}}
    /\ tracker \in TrackerInits
    /\ AStart
    /\ thread \in { <<>>,
                    <<NewComment(OtherUser, TRUE)>>,
                    <<NewComment(User, FALSE)>>,
                    <<NewComment(OtherUser, FALSE), NewComment(User, TRUE)>> }
    /\ comment = IF \E i \in DOMAIN thread : thread[i] = NewComment(User, TRUE)
                 THEN PrefixComment ELSE NoComment
    /\ runs = 1
    /\ faults = TRUE
    /\ converged = {}

\* Poller.Run calls Apply, and so Applier.Run, once more
ARestart ==
    /\ apc = "returned"
    /\ runs < MaxRuns
    /\ runs' = runs + 1
    /\ ros' = NilRos
    /\ lastPush' = "none"
    /\ apc' = "sync"
    /\ aerr' = ErrNone
    /\ asteps' = {}
    /\ ri' = 0
    /\ oi' = 0
    /\ done' = FALSE
    /\ rodone' = FALSE
    /\ afails' = NilFails
    /\ cid' = 0
    /\ UNCHANGED <<acfg, tracker, comment, thread, faults, converged>>
    /\ UNCHANGED <<pvars, svars, mvars>>

\* another account comments on the issue between two runs
OtherComment ==
    /\ apc = "sync"
    /\ runs > 1
    /\ Len(thread) < MaxThread
    /\ \E prefix \in BOOLEAN : thread' = Append(thread, NewComment(OtherUser, prefix))
    /\ UNCHANGED <<acfg, tracker, ros, comment, lastPush, apc, aerr, asteps, ri, oi, done, rodone,
                   afails, cid, wvars>>
    /\ UNCHANGED <<pvars, svars, mvars>>

NextRuns ==
    \/ NextApplier
    \/ ARestart
    \/ OtherComment

SpecRuns == InitRuns /\ [][NextRuns]_vars

\* ------------------------------------------------------------------------
\* rollout: the StatusViewers
\* ------------------------------------------------------------------------
TimedOutReason == "ProgressDeadlineExceeded"
OnDeleteStatefulSetStrategyType == "OnDelete"
RollingUpdateStatefulSetStrategyType == "RollingUpdate"
\* appsv1.RollingUpdateDaemonSetStrategyType
RollingUpdateDaemonSetStrategyType == "RollingUpdate"

\* a DeploymentCondition: its Type and Reason
Cond(t, r) == [type |-> t, reason |-> r]
\* the nil *DeploymentCondition
NilCond == Cond("", "")

GetDeploymentCondition_None(conds, condType) == NilCond

\* the first condition of the given type, nil if there is none
GetDeploymentCondition(conds, condType) ==
    LET m == {i \in DOMAIN conds : conds[i].type = condType}
    IN IF m = {} THEN NilCond ELSE conds[CHOOSE i \in m : \A j \in m : i <= j]

\* strconv.ParseInt(v, 10, 64) on the values the annotation takes here
ParseInt(v) ==
    IF v = "1" THEN [n |-> 1, err |-> FALSE]
    ELSE IF v = "2" THEN [n |-> 2, err |-> FALSE]
    ELSE [n |-> 0, err |-> TRUE]

\* Revision: 0 without the annotation, its parsed value otherwise
Revision(d) == IF d.revision = <<>> THEN [n |-> 0, err |-> FALSE] ELSE ParseInt(d.revision[1])

\* DeploymentStatusViewer.Status; got is the outcome of s.Get
DeploymentStatusViewerStatus(d, revision, got) ==
    IF ~got THEN StatusResult("", <<>>, FALSE, "Get failed")
    ELSE IF revision > 0 /\ Revision(d).err THEN StatusResult("", <<>>, FALSE, "cannot get the revision of deployment %q: %v")
    ELSE IF revision > 0 /\ revision # Revision(d).n
    THEN StatusResult("", <<>>, FALSE, "desired revision (%d) is different from the running revision (%d)")
    ELSE IF d.generation <= d.observed
    THEN LET cond == GetDeploymentCondition(d.conds, "Progressing") IN
         IF cond # NilCond /\ cond.reason = TimedOutReason
         THEN StatusResult("", <<>>, FALSE, "deployment %q exceeded its progress deadline")
         ELSE IF d.replicas # NilPtr /\ d.updated < d.replicas[1]
         THEN StatusResult("Waiting for deployment %q rollout to finish: %d out of %d new replicas have been updated...\n",
                           <<d.updated, d.replicas[1]>>, FALSE, "")
         ELSE IF d.total > d.updated
         THEN StatusResult("Waiting for deployment %q rollout to finish: %d old replicas are pending termination...\n",
                           <<d.total - d.updated>>, FALSE, "")
         ELSE IF d.available < d.updated
         THEN StatusResult("Waiting for deployment %q rollout to finish: %d of %d updated replicas are available...\n",
                           <<d.available, d.updated>>, FALSE, "")
         ELSE StatusResult("deployment %q successfully rolled out\n", <<>>, TRUE, "")
    ELSE StatusResult("Waiting for deployment spec update to be observed...\n", <<>>, FALSE, "")

DaemonSetStatusViewerStatus_AvailableFirst(d, revision, got) ==
    IF ~got THEN StatusResult("", <<>>, FALSE, "Get failed")
    ELSE IF d.strategy # RollingUpdateDaemonSetStrategyType
    THEN StatusResult("", <<>>, TRUE, "Status is available only for RollingUpdate strategy type")
    ELSE IF d.generation <= d.observed
    THEN IF d.available < d.desired
         THEN StatusResult("Waiting for daemon set %q rollout to finish: %d of %d updated pods are available...\n",
                           <<d.available, d.desired>>, FALSE, "")
         ELSE IF d.updated < d.desired
         THEN StatusResult("Waiting for daemon set %q rollout to finish: %d out of %d new pods have been updated...\n",
                           <<d.updated, d.desired>>, FALSE, "")
         ELSE StatusResult("daemon set %q successfully rolled out\n", <<>>, TRUE, "")
    ELSE StatusResult("Waiting for daemon set spec update to be observed...\n", <<>>, FALSE, "")

\* DaemonSetStatusViewer.Status; the revision is ignored
DaemonSetStatusViewerStatus(d, revision, got) ==
    IF ~got THEN StatusResult("", <<>>, FALSE, "Get failed")
    ELSE IF d.strategy # RollingUpdateDaemonSetStrategyType
    THEN StatusResult("", <<>>, TRUE, "Status is available only for RollingUpdate strategy type")
    ELSE IF d.generation <= d.observed
    THEN IF d.updated < d.desired
         THEN StatusResult("Waiting for daemon set %q rollout to finish: %d out of %d new pods have been updated...\n",
                           <<d.updated, d.desired>>, FALSE, "")
         ELSE IF d.available < d.desired
         THEN StatusResult("Waiting for daemon set %q rollout to finish: %d of %d updated pods are available...\n",
                           <<d.available, d.desired>>, FALSE, "")
         ELSE StatusResult("daemon set %q successfully rolled out\n", <<>>, TRUE, "")
    ELSE StatusResult("Waiting for daemon set spec update to be observed...\n", <<>>, FALSE, "")

PartitionTarget_NoPartition(s) == s.replicas[1]

\* *sts.Spec.Replicas - *sts.Spec.UpdateStrategy.RollingUpdate.Partition
PartitionTarget(s) == s.replicas[1] - s.partition[1]

\* StatefulSetStatusViewer.Status
StatefulSetStatusViewerStatus(s, revision, got) ==
    IF ~got THEN StatusResult("", <<>>, FALSE, "Get failed")
    ELSE IF s.strategy = OnDeleteStatefulSetStrategyType
    THEN StatusResult("", <<>>, TRUE, "%s updateStrategy does not have a Status")
    ELSE IF s.observed = 0 \/ s.generation > s.observed
    THEN StatusResult("Waiting for statefulset spec update to be observed...\n", <<>>, FALSE, "")
    ELSE IF s.replicas # NilPtr /\ s.ready < s.replicas[1]
    THEN StatusResult("Waiting for %d pods to be ready...\n", <<s.replicas[1] - s.ready>>, FALSE, "")
    ELSE IF s.strategy = RollingUpdateStatefulSetStrategyType /\ s.rollingUpdate
    THEN IF s.replicas # NilPtr /\ s.partition # NilPtr /\ s.updated < PartitionTarget(s)
         THEN StatusResult("Waiting for partitioned roll out to finish: %d out of %d new pods have been updated...\n",
                           <<s.updated, PartitionTarget(s)>>, FALSE, "")
         ELSE StatusResult("partitioned roll out complete: %d new pods have been updated...\n",
                           <<s.updated>>, TRUE, "")
    ELSE IF s.updateRevision # s.currentRevision
    THEN StatusResult("waiting for statefulset rolling update to complete %d pods at revision %s...\n",
                      <<s.updated, s.updateRevision>>, FALSE, "")
    ELSE StatusResult("statefulset rolling update complete %d pods at revision %s...\n",
                      <<s.current, s.currentRevision>>, TRUE, "")

\* ------------------------------------------------------------------------
\* The workloads a StatusViewer may find in the cluster
\* ------------------------------------------------------------------------
\* Deployments, DaemonSets and StatefulSets with every combination of the
\* fields the Status functions read.  Status.Conditions holds at most one
\* condition of a type; the deployment.kubernetes.io/revision annotation is
\* absent, a number, or not a number; Spec.UpdateStrategy.RollingUpdate of a
\* StatefulSet is nil, present without a partition, or present with one.
Workloads ==
    LET Counts == 0..MaxReplicas
        Generations == 1..2
        ObservedGenerations == 0..2
        ReplicaPtrs == {NilPtr} \cup {Ptr(n) : n \in Counts}
        CondSeqs ==
            { <<>>,
              <<Cond("Available", "MinimumReplicasAvailable"), Cond("Progressing", "NewReplicaSetAvailable")>>,
              <<Cond("Available", "MinimumReplicasUnavailable"), Cond("Progressing", TimedOutReason)>>,
              <<Cond("Progressing", TimedOutReason)>> }
        RevisionAnnotations == {<<>>, <<"1">>, <<"x">>}
        RollingUpdates ==
            {<<FALSE, NilPtr>>, <<TRUE, NilPtr>>} \cup {<<TRUE, Ptr(n)>> : n \in Counts}
        Deployments ==
            {[NilWorkload EXCEPT !.kind = "Deployment", !.generation = g, !.observed = ob,
                                 !.replicas = r, !.updated = u, !.total = t, !.available = a,
                                 !.conds = c, !.revision = rv] :
                g \in Generations, ob \in ObservedGenerations, r \in ReplicaPtrs,
                u \in Counts, t \in Counts, a \in Counts, c \in CondSeqs, rv \in RevisionAnnotations}
        DaemonSets ==
            {[NilWorkload EXCEPT !.kind = "DaemonSet", !.generation = g, !.observed = ob,
                                 !.strategy = st, !.desired = d, !.updated = u, !.available = a] :
                g \in Generations, ob \in ObservedGenerations,
                st \in {RollingUpdateDaemonSetStrategyType, "OnDelete"},
                d \in Counts, u \in Counts, a \in Counts}
        StatefulSets ==
            {[NilWorkload EXCEPT !.kind = "StatefulSet", !.generation = g, !.observed = ob,
                                 !.strategy = st, !.rollingUpdate = ru[1], !.partition = ru[2],
                                 !.replicas = r, !.ready = rd, !.updated = u,
                                 !.updateRevision = ur, !.currentRevision = cr] :
                g \in Generations, ob \in ObservedGenerations,
                st \in {RollingUpdateStatefulSetStrategyType, OnDeleteStatefulSetStrategyType},
                ru \in RollingUpdates, r \in ReplicaPtrs, rd \in Counts, u \in Counts,
                ur \in {"r1", "r2"}, cr \in {"r1", "r2"}}
    IN Deployments \cup DaemonSets \cup StatefulSets

InitStatus ==
    /\ PIdle
    /\ AIdle
    /\ MIdle
    /\ wl \in Workloads
    /\ sres = NilStatus

\* the record of a call: its arguments and what it returned
Called(res, revision, got) ==
    [called |-> TRUE, revision |-> revision, got |-> got,
     msg |-> res.msg, args |-> res.args, done |-> res.done, err |-> res.err]

\* viewer.Status on a Deployment; the Applier passes revision 0
ADeploymentStatus ==
    /\ wl.kind = "Deployment"
    /\ \E revision \in {0, 1}, got \in BOOLEAN :
          sres' = Called(DeploymentStatusViewerStatus(wl, revision, got), revision, got)
    /\ UNCHANGED <<wl, pvars, avars, mvars>>

\* viewer.Status on a DaemonSet
ADaemonSetStatus ==
    /\ wl.kind = "DaemonSet"
    /\ \E revision \in {0, 1}, got \in BOOLEAN :
          sres' = Called(DaemonSetStatusViewerStatus(wl, revision, got), revision, got)
    /\ UNCHANGED <<wl, pvars, avars, mvars>>

\* viewer.Status on a StatefulSet
AStatefulSetStatus ==
    /\ wl.kind = "StatefulSet"
    /\ \E revision \in {0, 1}, got \in BOOLEAN :
          sres' = Called(StatefulSetStatusViewerStatus(wl, revision, got), revision, got)
    /\ UNCHANGED <<wl, pvars, avars, mvars>>

NextStatus ==
    \/ ADeploymentStatus
    \/ ADaemonSetStatus
    \/ AStatefulSetStatus

SpecStatus == InitStatus /\ [][NextStatus]_vars

\* ------------------------------------------------------------------------
\* issues: the Manager's StatusReporters
\* ------------------------------------------------------------------------
\* a configured StatusReporter, its phase not yet computed
StatusReporter(name, inProgress, complete, waitFor) ==
    [Name |-> name, InProgressLabels |-> inProgress, CompleteLabels |-> complete,
     WaitFor |-> waitFor, Status |-> "", StatusIcon |-> "", Done |-> FALSE]

\* sets.String.HasAll
HasAll(s, labels) == \A i \in DOMAIN labels : labels[i] \in s

SetPhase(t, status, isDone, icon) ==
    [t EXCEPT !.Status = status, !.Done = isDone, !.StatusIcon = icon]

Phase_HeldBack(t, s) ==
    IF Len(t.WaitFor) > 0 THEN SetPhase(t, "Pending", FALSE, "")
    ELSE IF HasAll(s, t.CompleteLabels) THEN SetPhase(t, "Complete", TRUE, "done")
    ELSE IF HasAll(s, t.InProgressLabels) THEN SetPhase(t, "In Progress", FALSE, "inprogress")
    ELSE SetPhase(t, "Pending", FALSE, "")

Phase_InProgressFirst(t, s) ==
    IF HasAll(s, t.InProgressLabels) THEN SetPhase(t, "In Progress", FALSE, "inprogress")
    ELSE IF HasAll(s, t.CompleteLabels) THEN SetPhase(t, "Complete", TRUE, "done")
    ELSE SetPhase(t, "Pending", FALSE, "")

\* the switch of UpdateIssueStatus on reporter t and the label set s
Phase(t, s) ==
    IF HasAll(s, t.CompleteLabels) THEN SetPhase(t, "Complete", TRUE, "done")
    ELSE IF HasAll(s, t.InProgressLabels) THEN SetPhase(t, "In Progress", FALSE, "inprogress")
    ELSE SetPhase(t, "Pending", FALSE, "")

PhaseState_ClosedOnlyIfAll(state, t) ==
    IF t.Status = "Complete" /\ state # "open" THEN "closed" ELSE "open"

\* the assignment to state in the case taken for reporter t
PhaseState(state, t) == IF t.Status = "Complete" THEN "closed" ELSE "open"

RECURSIVE Report(_, _, _, _)
\* for _, t := range m.StatusReporters, from reporter i on: the reporters
\* with their phases and the state the loop ends with
Report(reporters, s, i, state) ==
    IF i > Len(reporters) THEN [reporters |-> reporters, state |-> state]
    ELSE LET t == Phase(reporters[i], s)
         IN Report([reporters EXCEPT ![i] = t], s, i + 1, PhaseState(state, t))

RECURSIVE ReporterLines(_, _)
\* range $r := .StatusReporters: a line of the table for each reporter
\* from i on, with the reporter (by its position), its status and whether
\* the "(run after ...)" annotation is shown
ReporterLines(reporters, i) ==
    IF i > Len(reporters) THEN <<>>
    ELSE LET t == reporters[i]
             line == [t |-> IF ~t.Done /\ Len(t.WaitFor) > 0
                            THEN "reporter, run after" ELSE "reporter",
                      n |-> i, c |-> t.Status]
         IN <<line, TokWs>> \o ReporterLines(reporters, i + 1)

\* (*github.PullRequest).GetNumber: 0 for a nil pull request
GetNumber(ptr) == IF ptr = NilPtr THEN 0 ELSE ptr[1]

bodyTemplate_CommitFirst(M) ==
    <<TokCommit(M.Commit), TokWs, TokPr(GetNumber(M.PullRequest)), TokWs, TokText, TokWs>>
        \o ReporterLines(M.StatusReporters, 1)

\* bodyTemplate.Execute(buff, m): the two marker lines, the title line and
\* the reporter table
bodyTemplate(M) ==
    <<TokPr(GetNumber(M.PullRequest)), TokWs, TokCommit(M.Commit), TokWs, TokText, TokWs>>
        \o ReporterLines(M.StatusReporters, 1)

\* Manager.UpdateIssueStatus
UpdateIssueStatus ==
    /\ mpc = "update"
    /\ \E getOk \in BOOLEAN, editOk \in BOOLEAN :
          IF mgr.Issue = NilPtr \/ ~getOk
          THEN /\ mgr' = [mgr EXCEPT !.Issue = NilPtr]
               /\ mpc' = "returned"
               /\ merr' = "Issues.Get failed"
               /\ UNCHANGED issues
          ELSE LET n == mgr.Issue[1]
                   r == Report(mgr.StatusReporters, LabelSet(issues[n]), 1, "")
                   M == [mgr EXCEPT !.StatusReporters = r.reporters]
               IN IF editOk
                  THEN /\ issues' = [issues EXCEPT ![n].state = r.state, ![n].body = bodyTemplate(M)]
                       /\ mgr' = M
                       /\ mpc' = "sleep"
                       /\ UNCHANGED merr
                  ELSE /\ mgr' = [M EXCEPT !.Issue = NilPtr]
                       /\ mpc' = "returned"
                       /\ merr' = "Issues.Edit failed"
                       /\ UNCHANGED issues
    /\ UNCHANGED <<cfg, mergeLog, p, pre, ret, pc, mcfg, mlog>>
    /\ UNCHANGED <<avars, svars>>

\* the tracking label
Label == "rollout"

\* the Manager about to update the status of tracking issue 2 of pull
\* request 1 and commit c1, with the reporters a configuration may declare
\* over the labels done-r1, done-r2 and wip
InitReporters ==
    /\ AIdle
    /\ SIdle
    /\ cfg = Crit("pr", <<>>, "", "", "")
    /\ mergeLog = <<[commit |-> "c1", kind |-> "pr", num |-> 1]>>
    /\ p = NilP
    /\ pre = NilP
    /\ ret = NilRet
    /\ pc = "apply"
    /\ mcfg = [Label |-> Label, AddLabels |-> <<>>, AddAssignees |-> <<>>]
    /\ \E rs \in
          LET One(name) ==
                  {StatusReporter(name, ip, cl, wf) :
                      ip \in {<<>>, <<"wip">>, <<"wip", "done-r1">>},
                      cl \in {<<>>, <<"done-r1">>, <<"done-r2">>, <<"done-r1", "done-r2">>},
                      wf \in {<<>>, <<"R1">>}}
              Names == <<"R1", "R2", "R3">>
          IN UNION {{q \in [1..k -> UNION {One(Names[j]) : j \in 1..k}] :
                         \A j \in 1..k : q[j].Name = Names[j]} : k \in 1..MaxReporters} :
          /\ mgr = [Issue |-> Ptr(2), PullRequest |-> Ptr(1), Commit |-> "c1",
                    StatusReporters |-> rs]
          /\ \E ls \in {<<>>, <<"done-r1">>, <<"done-r2">>, <<"wip">>,
                        <<"done-r1", "done-r2">>, <<"done-r1", "wip">>,
                        <<"done-r2", "wip">>, <<"done-r1", "done-r2", "wip">>} :
                issues = <<NewIssue(1, <<>>, {}, "", "closed", <<>>),
                           NewIssue(2, <<Label>> \o ls, {}, "", "open", bodyTemplate(mgr))>>
    /\ mpc = "update"
    /\ merr = ErrNone
    /\ mlog = [sync |-> "created", failed |-> FALSE, waited |-> FALSE, starts |-> 1]

SpecReporters == InitReporters /\ [][UpdateIssueStatus]_vars

\* ------------------------------------------------------------------------
\* issues: Manager.Run
\* ------------------------------------------------------------------------
\* issue.IsPullRequest(): the issue is the pull request of a merge commit
IsPullRequest(issue) ==
    \E i \in DOMAIN mergeLog : mergeLog[i].kind = "pr" /\ mergeLog[i].num = issue.number

\* Issues.ListByRepo with Labels {m.Label}, the Assignee and Milestone of
\* OpenIssue, and State "all"
ListTracking ==
    { n \in DOMAIN issues :
        /\ mcfg.Label \in LabelSet(issues[n])
        /\ AssigneeMatch(issues[n])
        /\ MilestoneMatch(issues[n]) }

\* prNum == m.PullRequest.GetNumber() and commit == m.Commit
MarkersMatch(mt, M) == mt.pr = GetNumber(M.PullRequest) /\ mt.commit = M.Commit

RECURSIVE FindIssue(_, _, _, _, _)
\* for _, issue := range issues: the listing is sorted by creation,
\* newest first, that is by falling number, from number n down. An issue
\* is closed by Issues.Edit with State closed, whose failure (n in bad) is
\* only logged; an issue without the markers (len(matches) != 3) is passed
\* over and the next one is taken up as the first.
FindIssue(iss, n, first, M, bad) ==
    LET closed == IF n \in bad THEN iss ELSE [iss EXCEPT ![n].state = "closed"]
    IN IF n = 0 THEN [issues |-> iss, mgr |-> M]
       ELSE IF n \notin ListTracking \/ IsPullRequest(issues[n])
       THEN FindIssue(iss, n - 1, first, M, bad)
       ELSE IF ~first
       THEN FindIssue(closed, n - 1, FALSE, M, bad)
       ELSE IF ~rolloutRegexMatchString(issues[n].body)
       THEN FindIssue(iss, n - 1, TRUE, M, bad)
       ELSE IF ~MarkersMatch(rolloutRegexFind(issues[n].body), M)
       THEN FindIssue(closed, n - 1, FALSE, M, bad)
       ELSE FindIssue(iss, n - 1, FALSE, [M EXCEPT !.Issue = Ptr(n)], bad)

\* m.PullRequest = nil; m.Commit = ""; m.Issue = nil
ResetSync(M) == [M EXCEPT !.Issue = NilPtr, !.PullRequest = NilPtr, !.Commit = ""]

\* gitClient.Clone() in Manager.Run, then the first SyncToPRAndIssue is
\* entered
MClone ==
    /\ mpc = "clone"
    /\ \E ok \in BOOLEAN :
          IF ok THEN mpc' = "syncPRs" /\ UNCHANGED merr
          ELSE mpc' = "returned" /\ merr' = "Clone failed"
    /\ mgr' = ResetSync(mgr)
    /\ UNCHANGED <<mcfg, mlog, pvars, avars, svars>>

\* one iteration of the loop of SyncPollerPRs, and on its return the
\* assignments m.PullRequest = m.poller.Pr and m.Commit = m.poller.Commit
SyncPollerPRs ==
    /\ mpc = "syncPRs"
    /\ \E gitBad \in BOOLEAN, prBad \in BOOLEAN, getBad \in {{}} \cup {{n} : n \in DOMAIN issues} :
          LET r == SyncPRs(p, gitBad, getBad, prBad) IN
          /\ p' = r.p
          /\ IF r.err # ErrNone
             THEN mpc' = "returned" /\ merr' = r.err /\ UNCHANGED mgr
             ELSE IF ~r.changed
             THEN mpc' = "backoff" /\ UNCHANGED <<merr, mgr>>
             ELSE /\ mpc' = "syncIssues"
                  /\ mgr' = [mgr EXCEPT !.PullRequest = Ptr(r.p.Pr), !.Commit = r.p.Commit]
                  /\ UNCHANGED merr
    /\ UNCHANGED <<cfg, mergeLog, issues, pre, ret, pc, mcfg, mlog>>
    /\ UNCHANGED <<avars, svars>>

\* time.Sleep in SyncPollerPRs
MBackoff ==
    /\ mpc = "backoff"
    /\ mpc' = "syncPRs"
    /\ mlog' = [mlog EXCEPT !.waited = TRUE]
    /\ UNCHANGED <<mcfg, mgr, merr, pvars, avars, svars>>

\* SyncToPRAndIssue from Issues.ListByRepo on; Issues.Create is called with
\* the body from the template, the open-action labels and the tracking
\* label, and the open-action assignees, and its failure is only logged
SyncToPRAndIssue ==
    /\ mpc = "syncIssues"
    /\ \E listOk \in BOOLEAN, createOk \in BOOLEAN, bad \in {{}} \cup {{n} : n \in DOMAIN issues} :
          IF ~listOk
          THEN /\ mpc' = "returned"
               /\ merr' = "ListByRepo failed"
               /\ mlog' = [mlog EXCEPT !.sync = "", !.failed = TRUE]
               /\ UNCHANGED <<issues, mgr>>
          ELSE LET f == FindIssue(issues, Len(issues), TRUE, mgr, bad)
               IN /\ bad \subseteq {n \in DOMAIN issues :
                                      FindIssue(issues, Len(issues), TRUE, mgr, {}).issues[n].state
                                          # issues[n].state}
                  /\ IF f.mgr.Issue # NilPtr
                     THEN /\ issues' = f.issues
                          /\ mgr' = f.mgr
                          /\ mlog' = [mlog EXCEPT !.sync = "adopted", !.failed = bad # {}]
                          /\ mpc' = "update"
                          /\ UNCHANGED merr
                     ELSE IF mgr.Commit = ""
                     THEN /\ issues' = f.issues
                          /\ mgr' = f.mgr
                          /\ mlog' = [mlog EXCEPT !.sync = "", !.failed = bad # {}]
                          /\ mpc' = "returned"
                          /\ merr' = "no commit for PR"
                     ELSE /\ Len(issues) < MaxTracker
                          /\ IF createOk
                             THEN /\ issues' =
                                        Append(f.issues,
                                               NewIssue(Len(issues) + 1,
                                                        mcfg.AddLabels \o <<mcfg.Label>>,
                                                        Range(mcfg.AddAssignees), "", "open",
                                                        bodyTemplate(f.mgr)))
                                  /\ mgr' = [f.mgr EXCEPT !.Issue = Ptr(Len(issues) + 1)]
                                  /\ mlog' = [mlog EXCEPT !.sync = "created", !.failed = bad # {}]
                             ELSE /\ issues' = f.issues
                                  /\ mgr' = f.mgr
                                  /\ mlog' = [mlog EXCEPT !.sync = "create failed", !.failed = TRUE]
                          /\ mpc' = "update"
                          /\ UNCHANGED merr
    /\ UNCHANGED <<cfg, mergeLog, p, pre, ret, pc, mcfg>>
    /\ UNCHANGED <<avars, svars>>

\* time.Sleep in Manager.Run, then the next SyncToPRAndIssue is entered
MSleep ==
    /\ mpc = "sleep"
    /\ mpc' = "syncPRs"
    /\ mgr' = ResetSync(mgr)
    /\ mlog' = [mlog EXCEPT !.waited = FALSE]
    /\ UNCHANGED <<mcfg, merr, pvars, avars, svars>>

\* the process is started again with the same configuration
MRestart ==
    /\ mpc \in {"sleep", "backoff", "returned"}
    /\ mlog.starts < MaxStarts
    /\ mpc' = "clone"
    /\ merr' = ErrNone
    /\ p' = NilP
    /\ mgr' = [NilM EXCEPT !.StatusReporters =
                 [i \in DOMAIN mgr.StatusReporters |->
                     SetPhase(mgr.StatusReporters[i], "", FALSE, "")]]
    /\ mlog' = [sync |-> "", failed |-> FALSE, waited |-> FALSE, starts |-> mlog.starts + 1]
    /\ UNCHANGED <<cfg, mergeLog, issues, pre, ret, pc, mcfg>>
    /\ UNCHANGED <<avars, svars>>

\* ------------------------------------------------------------------------
\* Environment of the Manager: the tracker (the repository changes by Merge)
\* ------------------------------------------------------------------------
\* a reporter's job puts the next of its labels on an issue that carries
\* the tracking label
LabelIssue ==
    /\ mpc \in {"sleep", "backoff"}
    /\ \E n \in DOMAIN issues, l \in {"wip", "done-r1"} :
          /\ mcfg.Label \in LabelSet(issues[n])
          /\ issues[n].body # <<>>
          /\ l \notin LabelSet(issues[n])
          /\ l = "done-r1" => "wip" \in LabelSet(issues[n])
          /\ issues' = [issues EXCEPT ![n].labels = Append(@, l)]
    /\ UNCHANGED <<cfg, mergeLog, p, pre, ret, pc, mvars>>
    /\ UNCHANGED <<avars, svars>>

\* somebody opens an issue that carries the tracking label: without the
\* markers, with the markers of the newest merged pull request, or with
\* those of another commit
OpenTracking ==
    /\ mpc \in {"sleep", "backoff"}
    /\ Len(issues) < MaxTracker
    /\ mlog.starts = 1
    /\ \A n \in DOMAIN issues : issues[n].body = <<>> \/ rolloutRegexMatchString(issues[n].body)
    /\ \E b \in {<<TokText>>, <<TokPr(1), TokWs, TokText>>, GoodBody(1, "c0")} :
          issues' = Append(issues, NewIssue(Len(issues) + 1, <<mcfg.Label>>, {}, "", "open", b))
    /\ UNCHANGED <<cfg, mergeLog, p, pre, ret, pc, mvars>>
    /\ UNCHANGED <<avars, svars>>

\* the configurations: OpenIssue matches every pull request and the
\* Manager assigns the issues it opens to u1, or OpenIssue matches the pull
\* requests assigned to u1 and the Manager assigns its issues to u2
InitManager ==
    /\ AIdle
    /\ SIdle
    /\ \E c \in {<<"", "u1">>, <<"u1", "u2">>} :
          /\ cfg = Crit("pr", <<>>, c[1], "", "")
          /\ mcfg = [Label |-> Label, AddLabels |-> <<"queued">>, AddAssignees |-> <<c[2]>>]
    /\ mergeLog = <<>>
    /\ issues = <<>>
    /\ p = NilP
    /\ pre = NilP
    /\ ret = NilRet
    /\ pc = "sleep"
    /\ mgr = [NilM EXCEPT !.StatusReporters =
                 <<StatusReporter("R1", <<"wip">>, <<"done-r1">>, <<>>)>>]
    /\ mpc = "clone"
    /\ merr = ErrNone
    /\ mlog = [sync |-> "", failed |-> FALSE, waited |-> FALSE, starts |-> 1]

\* a step of the Manager
Run ==
    \/ MClone
    \/ SyncPollerPRs
    \/ MBackoff
    \/ SyncToPRAndIssue
    \/ UpdateIssueStatus
    \/ MSleep

NextManager ==
    \/ Run
    \/ MRestart
    \/ Merge
    \/ LabelIssue
    \/ OpenTracking

SpecManager == InitManager /\ [][NextManager]_vars

\* the scheduler runs the process: a step of Run that can be taken is taken
SpecManagerFair == SpecManager /\ WF_vars(Run)

\* ========================================================================
\* Properties of the source synchronizer
\* ========================================================================
PRMode == cfg.Type = "pr"
IssueMode == cfg.Type = "issue"
Synced == pc = "synced"
Unchanged == ret.changed = FALSE /\ ret.err = ErrNone

\* the lines of the merge log that name a pull request
PRLines == {i \in DOMAIN mergeLog : mergeLog[i].kind = "pr"}
Above(k) == {j \in PRLines : j < k}
TopPRLine == CHOOSE k \in PRLines : Above(k) = {}
IssueOf(k) == issues[mergeLog[k].num]

\* the MatchCriteria as section 3 of the specification states them
CritSatisfied(issue) ==
    /\ Range(cfg.MatchLabels) \subseteq Range(issue.labels)
    /\ cfg.MatchAssignee = "" \/ cfg.MatchAssignee \in issue.assignees
    /\ cfg.MatchMilestone = "" \/ cfg.MatchMilestone = issue.milestone
    /\ cfg.MatchState \in {"", "all"} \/ cfg.MatchState = issue.state

\* the tracked commit is in the log and nothing above it qualifies
TrackedReachedFirst ==
    \E k \in PRLines :
        /\ mergeLog[k].commit = pre.Commit
        /\ \A j \in Above(k) : ~CritSatisfied(IssueOf(j))

\* C1 (as stated): once the merge log is read, the PR-log scan returns
\* "unchanged" exactly when the commit of the topmost merge-log line is the
\* previously tracked commit.
C1_UnchangedIffTopmostTracked ==
    (Synced /\ PRMode /\ ret.err # ErrFetch) =>
        (Unchanged <=>
            (PRLines # {} /\ mergeLog[TopPRLine].commit = pre.Commit))

\* C1 (amended): the PR-log scan returns "unchanged" exactly when the
\* tracked commit is in the merge log and no entry above it satisfies the
\* MatchCriteria, unless the fetch or an issue lookup fails first.
C1_UnchangedIffTrackedReachedFirst ==
    (Synced /\ PRMode) =>
        /\ Unchanged => TrackedReachedFirst
        /\ TrackedReachedFirst => (Unchanged \/ ret.err \in {ErrFetch, "Issues.Get failed"})

C1_Witness ==
    /\ Synced /\ PRMode /\ Unchanged
    /\ \E k \in PRLines : Above(k) # {} /\ mergeLog[k].commit = pre.Commit

\* C2: when the scan reports "changed", the adopted issue, pull request and
\* commit are those of the topmost entry above the tracked commit whose
\* issue satisfies every configured criterion; every entry above it fails
\* the criteria.
C2_AdoptsTopmostMatch ==
    (Synced /\ PRMode /\ ret.changed) =>
        \E k \in PRLines :
            /\ p.Commit = mergeLog[k].commit
            /\ p.Pr = mergeLog[k].num
            /\ p.Issue = IssueOf(k)
            /\ CritSatisfied(IssueOf(k))
            /\ mergeLog[k].commit # pre.Commit
            /\ \A j \in Above(k) :
                  /\ ~CritSatisfied(IssueOf(j))
                  /\ mergeLog[j].commit # pre.Commit

C2_Witness ==
    /\ Synced /\ PRMode /\ ret.changed
    /\ cfg.MatchMilestone # ""
    /\ \E k \in PRLines : p.Commit = mergeLog[k].commit /\ Above(k) # {}

\* only the label criterion is configured
LabelsOnly ==
    /\ cfg.MatchLabels # <<>>
    /\ cfg.MatchAssignee = "" /\ cfg.MatchMilestone = "" /\ cfg.MatchState = ""

\* line k was examined by the scan: it is not the tracked commit and nothing
\* above it stopped the scan
Examined(k) ==
    /\ mergeLog[k].commit # pre.Commit
    /\ \A j \in Above(k) :
          /\ mergeLog[j].commit # pre.Commit
          /\ ~(Range(cfg.MatchLabels) \subseteq Range(IssueOf(j).labels))

Adopted(k) == ret.changed /\ p.Commit = mergeLog[k].commit /\ p.Issue = IssueOf(k)

\* C3: with only required labels configured, an examined candidate is
\* accepted exactly when its label set is a superset of the required set.
C3_AcceptedIffLabelSuperset ==
    (Synced /\ PRMode /\ LabelsOnly /\ ret.err \in {ErrNone, "no matching PRs found"}) =>
        \A k \in PRLines :
            Examined(k) =>
                (Adopted(k) <=> Range(cfg.MatchLabels) \subseteq Range(IssueOf(k).labels))

C3_Witness ==
    /\ Synced /\ PRMode /\ LabelsOnly /\ Len(cfg.MatchLabels) = 2
    /\ \E k \in PRLines : Adopted(k) /\ IssueOf(k).labels # cfg.MatchLabels
    /\ \E j \in PRLines : Examined(j) /\ ~Adopted(j) /\ IssueOf(j).labels # <<>>

\* C4: a sync that returns an error leaves the TrackedState as it was.
C4_ErrorLeavesTrackedState ==
    (Synced /\ ret.err # ErrNone) =>
        /\ p.Issue = pre.Issue
        /\ p.Pr = pre.Pr
        /\ p.Commit = pre.Commit

\* C5: issue-mode sync with a non-empty listing and successful lookups
\* reports "changed" exactly when the newest listed issue is not the tracked
\* one and is not closed; it reports "unchanged" whenever the tracked issue
\* it ends with is closed.
C5_IssueChangedIffNewAndOpen ==
    (Synced /\ IssueMode /\ ret.err = ErrNone) =>
        /\ ret.changed <=>
              (issues[MaxOf(ListByRepo)].id # pre.Issue.id
               /\ issues[MaxOf(ListByRepo)].state # "closed")
        /\ p.Issue.state = "closed" => ~ret.changed
        /\ issues[MaxOf(ListByRepo)].id = pre.Issue.id => ~ret.changed

C5_Witness ==
    /\ Synced /\ IssueMode /\ ret.err = ErrNone /\ ~ret.changed
    /\ p.Issue.id # pre.Issue.id
    /\ p.Issue.state = "closed"
    /\ pre.Issue.id # 0

HasCommitMarker(body) == \E i \in DOMAIN body : body[i].t = "commit"

\* C6: when the newest listed issue is new and its body lacks the commit
\* marker, issue-mode sync returns the parse error (unless the listing
\* itself fails) and adopts no commit; Run then pauses and stays in its
\* loop: it neither starts the rollout nor returns.
C6_ParseFailureSkipsIssue ==
    [][ /\ (pc = "sync" /\ pc' = "synced" /\ IssueMode /\ ListByRepo # {}
            /\ Newest.id # p.Issue.id /\ ~HasCommitMarker(Newest.body))
           => (ret'.err \in {ErrParse, "ListByRepo failed"} /\ ~ret'.changed
               /\ p'.Commit = p.Commit /\ p'.Pr = p.Pr)
        /\ (Synced /\ ret.err = ErrParse) => pc' = "sleep"
        /\ (pc = "sleep") => pc' \in {"sleep", "sync"}
      ]_vars

C6_Witness ==
    /\ Synced /\ IssueMode /\ ret.err = ErrParse
    /\ ~HasCommitMarker(p.Issue.body)
    /\ p.Issue.body # <<>>

\* ========================================================================
\* Properties of the apply orchestrator
\* ========================================================================
Parallel == ~Sequential
Rollouts == 1..NRo
Objects(r) == 1..NObj(r)
AllObjects == UNION {{<<r, o>> : o \in Objects(r)} : r \in Rollouts}
\* x precedes y in rollout order, then object order
Before(x, y) == x[1] < y[1] \/ (x[1] = y[1] /\ x[2] < y[2])
O(x) == Obj(x[1], x[2])
Applied(x) == O(x).ApplyStatus # ""
Polled(x) == O(x).RolloutStatus # ""

\* C7: under the sequential policy no object of Rollout k+1 is applied
\* before every object of Rollout k is applied and found done by the poll
\* loop, which leaves Rollout k Complete.
C7_SequentialOneRolloutAtATime ==
    Sequential =>
        \A x \in AllObjects : \A y \in AllObjects :
            (x[1] < y[1] /\ Applied(y)) =>
                /\ O(x).ApplyStatus = "configured"
                /\ O(x).Done
                /\ HasViewer(O(x)) => O(x).RolloutStatus = "successfully rolled out"
                /\ ros.Rollouts[x[1]].Status = "Complete"

C7_Witness ==
    /\ Sequential
    /\ NRo = 2
    /\ Applied(<<2, 1>>)
    /\ \E o \in Objects(1) : Len(Obj(1, o).RolloutStatusHistory) = 2

\* C8: under the parallel policy objects are applied in rollout order, then
\* object order, no status call is made before every object of every
\* Rollout is applied, and one pass of the poll loop visits the objects of
\* all Rollouts.
C8_ParallelApplyAllThenPollAll ==
    Parallel =>
        /\ \A x \in AllObjects : \A y \in AllObjects :
              (Before(x, y) /\ Applied(y)) => Applied(x)
        /\ \A x \in AllObjects : \A y \in AllObjects : Polled(x) => Applied(y)
        /\ apc \in {"poll", "pushPass"} => \A y \in AllObjects : Applied(y)
        /\ apc = "poll" => \A x \in AllObjects : Before(x, <<ri, oi>>) => Polled(x)
        /\ apc = "pushPass" => \A x \in AllObjects : Polled(x)

C8_Witness ==
    /\ Parallel
    /\ apc = "poll"
    /\ ri = 2
    /\ \E o \in Objects(1) : ~Obj(1, o).Done /\ HasViewer(Obj(1, o))

ApplyFailed(x) == O(x).ApplyStatus = "error from server"

\* C9: when kubectl apply fails for an object, Run has returned the error:
\* the comment update was attempted once with the failing object's output
\* in it, no later object is applied, nothing of the failing Rollout or of
\* a later one is polled, the RolloutSet is not Complete and the after
\* actions are not executed.
C9_ApplyFailureAborts ==
    aerr = ErrApply =>
        /\ apc = "returned"
        /\ ApplyFailed(<<ri, oi>>)
        /\ \A x \in AllObjects :
              /\ Before(x, <<ri, oi>>) => O(x).ApplyStatus = "configured"
              /\ Before(<<ri, oi>>, x) => ~Applied(x)
              /\ (x[1] >= ri \/ Parallel) =>
                    (~Polled(x) /\ ~O(x).Done /\ O(x).RolloutStatusHistory = <<>>)
        /\ lastPush # "none"
        /\ lastPush = "ok" => comment = Render(ros)
        /\ lastPush = "failed" => comment # Render(ros)
        /\ ros.Status # "Complete"
        /\ \A r \in Rollouts : r >= ri => ros.Rollouts[r].Status # "Complete"
        /\ asteps \cap {"complete", "after"} = {}
        /\ "rolled" \notin tracker.labels /\ tracker.state # "closed"

C9_Witness ==
    /\ aerr = ErrApply
    /\ Sequential
    /\ ri = 2
    /\ lastPush = "ok"

\* C10: when a status lookup fails, the polled object's rollout status is
\* the error text, the comment update is attempted once, and Run returns
\* the error at once: no other object is touched by that step, the
\* RolloutSet is not Complete and the after actions are not executed.
C10_StatusFailureAborts ==
    /\ [](aerr = ErrStatus =>
            /\ apc = "returned"
            /\ O(<<ri, oi>>).RolloutStatus = ErrorText
            /\ \A x \in AllObjects : x # <<ri, oi>> => O(x).RolloutStatus # ErrorText
            /\ lastPush # "none"
            /\ lastPush = "ok" => comment = Render(ros)
            /\ ros.Status # "Complete"
            /\ asteps \cap {"complete", "after"} = {}
            /\ "rolled" \notin tracker.labels /\ tracker.state # "closed")
    /\ [][(aerr = ErrNone /\ aerr' = ErrStatus) =>
            /\ apc = "poll" /\ apc' = "returned"
            /\ \A x \in AllObjects : x # <<ri, oi>> => O(x) = O(x)'
            /\ \A r \in Rollouts : ros'.Rollouts[r].Status = ros.Rollouts[r].Status
            /\ ros'.Status = ros.Status
            /\ tracker' = tracker]_vars

C10_Witness ==
    /\ aerr = ErrStatus
    /\ lastPush = "ok"
    /\ \E x \in AllObjects : Before(<<ri, oi>>, x) /\ Polled(x)
    /\ \E x \in AllObjects : Before(x, <<ri, oi>>) /\ HasViewer(O(x))

\* C11: during polling an object's status history only grows at its end:
\* a status call that answers appends exactly one entry, the message it
\* returned, if and only if that message differs from the object's rollout
\* status, no other object's history moves, and the entry is in the pushed
\* comment (or the push failed and Run has returned) before any other
\* status call.
C11_HistoryAppendOnly ==
    [][apc = "poll" =>
          \A x \in AllObjects :
              LET h == O(x).RolloutStatusHistory
                  h2 == O(x)'.RolloutStatusHistory
                  appended == Len(h2) = Len(h) + 1 /\ SubSeq(h2, 1, Len(h)) = h
              IN /\ h2 = h \/ appended
                 /\ x # <<ri, oi>> => h2 = h
                 /\ (x = <<ri, oi>> /\ HasViewer(O(x)) /\ aerr' # ErrStatus) =>
                       /\ appended <=> O(x)'.RolloutStatus # O(x).RolloutStatus
                       /\ appended => h2[Len(h2)] = O(x)'.RolloutStatus
                       /\ appended =>
                             \/ /\ lastPush' = "ok"
                                /\ comment'.Rollouts[x[1]].Objects[x[2]].History = h2
                             \/ /\ lastPush' = "failed"
                                /\ apc' = "returned"
                                /\ aerr' = ErrComment]_vars

C11_Witness ==
    /\ apc = "poll"
    /\ lastPush = "ok"
    /\ \E x \in AllObjects :
          /\ Len(O(x).RolloutStatusHistory) = 2
          /\ O(x).RolloutStatusHistory[1] # O(x).RolloutStatusHistory[2]
          /\ comment.Rollouts[x[1]].Objects[x[2]].History = O(x).RolloutStatusHistory

\* C12: in every state of a run, and in every comment body on the tracker,
\* the RolloutSet is shown Complete only if every Rollout in it is Complete.
C12_CompleteOnlyIfAllRolloutsComplete ==
    /\ ros.Status = "Complete" =>
          \A r \in Rollouts : ros.Rollouts[r].Status = "Complete"
    /\ comment.Status = "Complete" =>
          \A r \in DOMAIN comment.Rollouts : comment.Rollouts[r].Status = "Complete"

C12_Witness ==
    /\ Parallel
    /\ NRo = 2
    /\ ros.Status = "Complete"
    /\ comment = Render(ros)
    /\ \E x \in AllObjects : Len(O(x).RolloutStatusHistory) = 2

\* Run has returned nil after the whole pipeline
RunCompleted ==
    /\ apc = "returned"
    /\ aerr = ErrNone
    /\ lastPush = "ok"
    /\ comment = Render(ros)
    /\ comment.Status = "Complete"
    /\ Len(comment.Rollouts) = 2
    /\ \A r \in DOMAIN comment.Rollouts :
          /\ comment.Rollouts[r].Status = "Complete"
          /\ \A o \in DOMAIN comment.Rollouts[r].Objects :
                comment.Rollouts[r].Objects[o].Done
    /\ {"complete", "after"} \subseteq asteps
    /\ afails.step = "after"
    /\ Range(acfg.AfterAddLabels) \subseteq tracker.labels
    /\ tracker.state = acfg.AfterSetState

\* C13: with two target paths and the sequential policy, when no call to
\* the tracker, to kubectl or to a status viewer fails and every applied
\* workload finishes its rollout and stays finished, Run terminates: the
\* last pushed comment shows the RolloutSet and both Rollouts Complete and
\* every object done, and the after actions have been executed.
C13_SequentialRunTerminates ==
    (Sequential /\ Len(acfg.Shape) = 2 /\ ~faults) => <>RunCompleted

C13_Witness ==
    /\ RunCompleted
    /\ Sequential
    /\ ~faults
    /\ \A r \in Rollouts : \E o \in Objects(r) : Len(Obj(r, o).RolloutStatusHistory) = 2

\* the last before/after step was `step`, and in it the call `call` failed
FailedIn(step, call) == afails.step = step /\ call \in afails.fails

\* the before step went through: Run reached GetComment
BeforeWentThrough == "before" \in asteps /\ aerr # ErrBefore

\* C14: in the before and in the after step, a failing AddLabels or
\* AddAssignees makes Run return the step's error with no later call of the
\* step and no later step executed, while a failing RemoveLabels or
\* RemoveAssignees is ignored: the calls after it are made and the step
\* does not fail because of it.
C14_AddFatalRemoveBestEffort ==
    /\ FailedIn("before", "AddLabels") =>
          /\ apc = "returned" /\ aerr = ErrBefore
          /\ tracker = afails.tr
          /\ asteps = {"sync"} /\ ros = NilRos /\ lastPush = "none" /\ cid = 0
    /\ FailedIn("before", "AddAssignees") =>
          /\ apc = "returned" /\ aerr = ErrBefore
          /\ Range(acfg.BeforeAddLabels) \subseteq tracker.labels
          /\ tracker.assignees = afails.tr.assignees
          /\ tracker.state = afails.tr.state
          /\ asteps = {"sync"} /\ ros = NilRos /\ lastPush = "none" /\ cid = 0
    /\ FailedIn("before", "RemoveLabels") =>
          /\ BeforeWentThrough
          /\ Range(acfg.BeforeAddAssignees) \subseteq tracker.assignees
          /\ Range(acfg.BeforeRemoveAssignees) \cap tracker.assignees = {}
    /\ FailedIn("before", "RemoveAssignees") =>
          /\ BeforeWentThrough
          /\ tracker.assignees = afails.tr.assignees \cup Range(acfg.BeforeAddAssignees)
    /\ (afails.step = "before" /\ afails.fails \cap {"AddLabels", "AddAssignees"} = {}) =>
          BeforeWentThrough
    /\ FailedIn("after", "AddLabels") =>
          /\ apc = "returned" /\ aerr = ErrAfter
          /\ tracker = afails.tr
    /\ FailedIn("after", "AddAssignees") =>
          /\ apc = "returned" /\ aerr = ErrAfter
          /\ Range(acfg.AfterAddLabels) \subseteq tracker.labels
          /\ tracker.assignees = afails.tr.assignees
          /\ tracker.state = afails.tr.state
    /\ FailedIn("after", "RemoveLabels") =>
          /\ apc = "returned" /\ aerr = ErrNone
          /\ Range(acfg.AfterAddAssignees) \subseteq tracker.assignees
          /\ tracker.state = acfg.AfterSetState
    /\ FailedIn("after", "RemoveAssignees") =>
          /\ apc = "returned" /\ aerr = ErrNone
          /\ tracker.assignees = afails.tr.assignees \cup Range(acfg.AfterAddAssignees)
          /\ tracker.state = acfg.AfterSetState

C14_Witness ==
    /\ FailedIn("after", "AddAssignees")
    /\ aerr = ErrAfter
    /\ "rolled" \in tracker.labels
    /\ "rolling" \notin tracker.labels

\* the comments of thread th that a.User wrote and that begin with the prefix
Progress(th) == {i \in DOMAIN th : th[i].user = User /\ th[i].Prefix}

\* C15: over any number of runs for the same rollout name, user and issue,
\* at most one comment of the user begins with the prefix; GetComment adds
\* a comment only when there is none and returns the existing one
\* otherwise; every other step of Run leaves the number of comments and
\* every comment but the one held alone, and every change of the progress
\* body is an edit of that one comment whose body begins with the prefix.
C15_OneProgressComment ==
    /\ [](Cardinality(Progress(thread)) <= 1)
    /\ [][(Len(thread') > Len(thread) /\ thread'[Len(thread')].user = User) =>
             /\ apc = "getcomment"
             /\ Progress(thread) = {}
             /\ thread' = Append(thread, NewComment(User, TRUE))
             /\ cid' = Len(thread')]_vars
    /\ [][(apc = "getcomment" /\ apc' = "render" /\ Progress(thread) # {}) =>
             /\ thread' = thread
             /\ cid' \in Progress(thread)]_vars
    /\ [][apc \notin {"getcomment", "sync", "returned"} =>
             /\ Len(thread') = Len(thread)
             /\ cid' = cid
             /\ \A i \in DOMAIN thread : i # cid => thread'[i] = thread[i]]_vars
    /\ [][(comment' # comment /\ apc # "getcomment") =>
             /\ cid \in Progress(thread)
             /\ cid \in Progress(thread')
             /\ comment'.Prefix]_vars

C15_Witness ==
    /\ runs = 2
    /\ apc = "poll"
    /\ lastPush = "ok"
    /\ comment = Render(ros)
    /\ cid = 2
    /\ Progress(thread) = {2}
    /\ thread[1] = NewComment(OtherUser, TRUE)
    /\ Len(thread) = 3

\* the objects the running poll loop ranges over
InScope == {x \in AllObjects : Parallel \/ x[1] = ri}

\* the object's type is none of those GetStatusViewer knows
NoAlgorithm(o) == o.Kind \notin ViewerKinds

\* C20: an object of a kind without a StatusViewer (a ConfigMap, an
\* unstructured object) is never given an answer of a status viewer: once
\* polled its rollout status is "NA" and it is done, its history stays
\* empty, polling it pushes nothing, fails nothing and leaves the loop's
\* done as it was; a pass over such objects only ends with done = true.
C20_NoViewerIsNotApplicable ==
    /\ [](\A x \in AllObjects : NoAlgorithm(O(x)) =>
              /\ O(x).RolloutStatusHistory = <<>>
              /\ O(x).RolloutStatus \in {"", "NA"}
              /\ Polled(x) => O(x).Done)
    /\ [][(apc = "poll" /\ NoAlgorithm(Obj(ri, oi))) =>
              /\ ros'.Rollouts[ri].Objects[oi].RolloutStatus = "NA"
              /\ ros'.Rollouts[ri].Objects[oi].Done
              /\ done' = done
              /\ rodone' = rodone
              /\ aerr' = aerr
              /\ apc' # "returned"
              /\ comment' = comment
              /\ lastPush' = lastPush]_vars
    /\ []((apc = "pushPass" /\ \A x \in InScope : NoAlgorithm(O(x))) => done)

C20_Witness ==
    /\ apc = "complete"
    /\ AllObjects # {}
    /\ \A x \in AllObjects :
          /\ O(x).Kind \in {"Unstructured", "ConfigMap"}
          /\ O(x).RolloutStatus = "NA"
          /\ O(x).Done
    /\ \E x \in AllObjects : O(x).Kind = "Unstructured"

\* ========================================================================
\* Properties of the StatusViewers
\* ========================================================================
\* Status was called on a workload of the kind and the Get succeeded
Answered(kind) == sres.called /\ sres.got /\ wl.kind = kind
\* the call returned a message, done = false and no error
NotDone == ~sres.done /\ sres.err = "" /\ sres.msg # ""
\* the call returned a message, done = true and no error
IsDone == sres.done /\ sres.err = "" /\ sres.msg # ""
\* the Deployment has a Progressing condition whose reason is the deadline
DeadlineExceeded ==
    \E i \in DOMAIN wl.conds :
        wl.conds[i].type = "Progressing" /\ wl.conds[i].reason = "ProgressDeadlineExceeded"

\* C16: for a Deployment, with revision 0, the first of these that holds
\* decides the result: generation > observedGeneration (not done, waiting
\* for the spec update to be observed), a progress-deadline-exceeded
\* condition (error), updated < desired (not done, citing updated and
\* desired), total > updated (not done, citing total - updated), available
\* < updated (not done, citing available and updated); otherwise done.
\* So desired = updated = total = available = 3 with the generation
\* observed is done, and updated = 1 of desired = 3 is not done, citing 1
\* and 3.
C16_DeploymentStatusOrder ==
    (Answered("Deployment") /\ sres.revision = 0) =>
        LET c1 == wl.generation > wl.observed
            c2 == DeadlineExceeded
            c3 == wl.replicas # <<>> /\ wl.updated < wl.replicas[1]
            c4 == wl.total > wl.updated
            c5 == wl.available < wl.updated
        IN /\ c1 => NotDone /\ sres.msg = "Waiting for deployment spec update to be observed...\n"
           /\ (~c1 /\ c2) => sres.err # "" /\ ~sres.done
           /\ (~c1 /\ ~c2 /\ c3) => NotDone /\ sres.args = <<wl.updated, wl.replicas[1]>>
           /\ (~c1 /\ ~c2 /\ ~c3 /\ c4) => NotDone /\ sres.args = <<wl.total - wl.updated>>
           /\ (~c1 /\ ~c2 /\ ~c3 /\ ~c4 /\ c5) =>
                 NotDone /\ sres.args = <<wl.available, wl.updated>>
           /\ (~c1 /\ ~c2 /\ ~c3 /\ ~c4 /\ ~c5) => IsDone
           /\ (~c1 /\ ~c2 /\ wl.replicas = <<3>> /\ wl.updated = 3 /\ wl.total = 3
                 /\ wl.available = 3) => IsDone
           /\ (~c1 /\ ~c2 /\ wl.replicas = <<3>> /\ wl.updated = 1) =>
                 NotDone /\ sres.args = <<1, 3>>

C16_Witness ==
    /\ Answered("Deployment")
    /\ sres.revision = 0
    /\ wl.replicas = <<3>> /\ wl.updated = 1
    /\ wl.conds # <<>>
    /\ sres.args = <<1, 3>>
    /\ ~sres.done

\* C17: for a DaemonSet, a strategy other than RollingUpdate is an error;
\* otherwise generation > observedGeneration is not done; otherwise the
\* result is done exactly when updated-scheduled and available both reach
\* desired-scheduled, and a shortfall of updated-scheduled is the one
\* reported when both fall short.
C17_DaemonSetStatus ==
    Answered("DaemonSet") =>
        /\ wl.strategy # "RollingUpdate" => sres.err # ""
        /\ (wl.strategy = "RollingUpdate" /\ wl.generation > wl.observed) => NotDone
        /\ (wl.strategy = "RollingUpdate" /\ wl.generation <= wl.observed) =>
              /\ sres.err = ""
              /\ sres.done <=> (wl.updated >= wl.desired /\ wl.available >= wl.desired)
              /\ wl.updated < wl.desired =>
                    /\ sres.args = <<wl.updated, wl.desired>>
                    /\ sres.msg = "Waiting for daemon set %q rollout to finish: %d out of %d new pods have been updated...\n"
              /\ (wl.updated >= wl.desired /\ wl.available < wl.desired) =>
                    /\ sres.args = <<wl.available, wl.desired>>
                    /\ sres.msg = "Waiting for daemon set %q rollout to finish: %d of %d updated pods are available...\n"

C17_Witness ==
    /\ Answered("DaemonSet")
    /\ wl.strategy = "RollingUpdate"
    /\ wl.generation <= wl.observed
    /\ wl.updated = 1 /\ wl.available = 0 /\ wl.desired = 2
    /\ sres.args = <<1, 2>>
    /\ ~sres.done

\* the StatefulSet's generation is observed and no replica is short of ready
Settled ==
    /\ wl.observed # 0
    /\ wl.generation <= wl.observed
    /\ wl.replicas # <<>> => wl.ready >= wl.replicas[1]

\* C18: for a StatefulSet with the RollingUpdate strategy, a partition p
\* and d desired replicas, once the generation is observed and ready >= d,
\* the result is done ("partitioned roll out complete") exactly when
\* updatedReplicas >= d - p; with p = 1 and d = 3 that is updatedReplicas
\* >= 2.
C18_PartitionThreshold ==
    (Answered("StatefulSet") /\ wl.strategy = "RollingUpdate" /\ wl.rollingUpdate
        /\ wl.partition # <<>> /\ wl.replicas # <<>> /\ Settled) =>
        /\ sres.err = ""
        /\ sres.done <=> wl.updated >= wl.replicas[1] - wl.partition[1]
        /\ sres.done =>
              sres.msg = "partitioned roll out complete: %d new pods have been updated...\n"
        /\ (wl.partition = <<1>> /\ wl.replicas = <<3>>) => (sres.done <=> wl.updated >= 2)

C18_Witness ==
    /\ Answered("StatefulSet")
    /\ wl.strategy = "RollingUpdate" /\ wl.rollingUpdate
    /\ wl.partition = <<1>> /\ wl.replicas = <<3>>
    /\ Settled
    /\ wl.updated = 2
    /\ wl.updateRevision # wl.currentRevision
    /\ sres.done

\* C19: for a StatefulSet with no partition value set (and a strategy
\* other than OnDelete), once the generation is observed and ready is not
\* short of desired, the result is done exactly when the update revision
\* equals the current revision.
C19_NoPartitionDoneIffRevisionsEqual ==
    (Answered("StatefulSet") /\ wl.strategy # "OnDelete" /\ wl.partition = <<>> /\ Settled) =>
        /\ sres.err = ""
        /\ sres.done <=> wl.updateRevision = wl.currentRevision

\* ========================================================================
\* Properties of the poll loops
\* ========================================================================
\* the done value the answer stored as the object's rollout status came with
ReturnedDone(o) == \E r \in StatusResults : r.status = o.RolloutStatus /\ r.d
\* the object's last status call succeeded
Answer(o) == ~NoAlgorithm(o) /\ o.RolloutStatus \in {r.status : r \in StatusResults}

\* C29: viewer.Status is called only for objects whose done flag is not
\* set, and a done flag that is set stays set until the run ends.
C29_OnlyNotDonePolled ==
    /\ [][(apc = "poll" /\ ~NoAlgorithm(Obj(ri, oi))) => ~Obj(ri, oi).Done]_vars
    /\ [][(apc \in {"poll", "pushPass"}) =>
              \A x \in AllObjects :
                  O(x).Done => ros'.Rollouts[x[1]].Objects[x[2]].Done]_vars

\* C30: under both policies, once a status call on an object with a
\* StatusViewer has succeeded, the object's done flag is the done value
\* that call returned.
C30_DoneFlagIsReturnedDone ==
    \A x \in AllObjects : Answer(O(x)) => (O(x).Done = ReturnedDone(O(x)))

\* ========================================================================
\* Properties of the apply poller's loop
\* ========================================================================
\* C28: once the clone has succeeded Run never returns: a sync that ends
\* with an error is followed by the pause, so is the rollout whatever
\* Apply returns, and the pause is followed by the next sync.
C28_RunSurvivesErrors ==
    [][ /\ (pc # "clone") => pc' # "returned"
        /\ (Synced /\ ret.err # ErrNone) => pc' = "sleep"
        /\ (pc = "apply") => pc' = "sleep"
        /\ (pc = "sleep") => pc' \in {"sleep", "sync"}
      ]_vars

\* a sync failed after it had taken up an issue, and Run is in a later
\* iteration
C28_Witness ==
    /\ pc = "sync"
    /\ IssueMode
    /\ p.Issue.id # 0
    /\ p.Commit = ""

\* ========================================================================
\* Properties of the status aggregator
\* ========================================================================
\* UpdateIssueStatus has written the status back
Updated == mpc = "sleep" /\ mgr.Issue # NilPtr
\* the issue the Manager holds, and its labels
TrackingIssue == issues[mgr.Issue[1]]
IssueLabels == LabelSet(TrackingIssue)
Reporters == DOMAIN mgr.StatusReporters
\* the label set contains every label of the list
Superset(labels) == Range(labels) \subseteq IssueLabels

\* C21: after a status update every reporter is Complete if the issue's
\* labels contain all its complete labels, otherwise In Progress if they
\* contain all its in-progress labels, otherwise Pending (so Complete wins
\* when both hold), and its done flag is set exactly when it is Complete.
C21_PhaseFromLabels ==
    Updated =>
        \A i \in Reporters :
            LET t == mgr.StatusReporters[i] IN
            /\ t.Status = IF Superset(t.CompleteLabels) THEN "Complete"
                          ELSE IF Superset(t.InProgressLabels) THEN "In Progress"
                          ELSE "Pending"
            /\ t.Done <=> (t.Status = "Complete")

\* a reporter whose complete labels and in-progress labels are both on the
\* issue is Complete
C21_Witness ==
    /\ Updated
    /\ \E i \in Reporters :
          LET t == mgr.StatusReporters[i] IN
          /\ t.CompleteLabels # <<>> /\ Superset(t.CompleteLabels)
          /\ t.InProgressLabels # <<>> /\ Superset(t.InProgressLabels)
          /\ t.Status = "Complete" /\ t.Done
    /\ \E i \in Reporters : mgr.StatusReporters[i].Status = "Pending"

\* the last reporter in configuration order
LastReporter == mgr.StatusReporters[Len(mgr.StatusReporters)]

\* C22: the state written back is closed if the last reporter in
\* configuration order is Complete and open otherwise, whatever the phases
\* of the reporters before it.
C22_LastReporterDecidesState ==
    Updated =>
        TrackingIssue.state = IF LastReporter.Status = "Complete" THEN "closed" ELSE "open"

\* the issue is closed although an earlier reporter is not Complete
C22_Witness ==
    /\ Updated
    /\ Len(mgr.StatusReporters) = 2
    /\ mgr.StatusReporters[1].Status # "Complete"
    /\ LastReporter.Status = "Complete"
    /\ TrackingIssue.state = "closed"

\* R1 and R2 with complete labels done-r1 and done-r2 and no in-progress
\* labels, and an issue that carries done-r1 and not done-r2
Scenario ==
    /\ Len(mgr.StatusReporters) = 2
    /\ mgr.StatusReporters[1].CompleteLabels = <<"done-r1">>
    /\ mgr.StatusReporters[2].CompleteLabels = <<"done-r2">>
    /\ mgr.StatusReporters[1].InProgressLabels = <<>>
    /\ mgr.StatusReporters[2].InProgressLabels = <<>>
    /\ IssueLabels = {Label, "done-r1"}

\* C23: in that scenario the status update computes R1 Complete and R2
\* Pending and writes back the state open.
C23_ScenarioR2Pending ==
    (Updated /\ Scenario) =>
        /\ mgr.StatusReporters[1].Status = "Complete"
        /\ mgr.StatusReporters[2].Status = "Pending"
        /\ TrackingIssue.state = "open"

\* the open issues that carry the tracking label
OpenTrackingIssues ==
    {n \in DOMAIN issues : mcfg.Label \in LabelSet(issues[n]) /\ issues[n].state = "open"}
\* SyncToPRAndIssue has returned nil and none of its tracker calls failed
SyncedCleanly == mpc = "update" /\ ~mlog.failed

\* C24: after a sync step in which every tracker call succeeded, at most
\* one issue that carries the tracking label is open.
C24_OneOpenTrackingIssue ==
    SyncedCleanly => Cardinality(OpenTrackingIssues) <= 1

\* C25: Run never returns because SyncPRs found no matching pull request:
\* the sub-loop waits and retries.
C25_NotFoundIsRetried == ~(mpc = "returned" /\ merr = "no matching PRs found")

\* C26: in every cycle of Run the sync sub-loop returns, also while the
\* pull request found before is still the newest: Run is outside the
\* sub-loop again and again, so the phases are recomputed from the labels
\* the tracking issue carries then.
C26_SubLoopReturns == []<>(mpc \notin {"syncPRs", "backoff"})

\* the body begins with the two marker lines in their order, and the marker
\* parser reads pull request N and commit h from it
RoundTrips(body, N, h) ==
    /\ Len(body) >= 4
    /\ body[1].t = "pr" /\ body[2].t = "ws" /\ body[3].t = "commit" /\ body[4].t = "ws"
    /\ rolloutRegexMatchString(body)
    /\ rolloutRegexFind(body) = [pr |-> N, commit |-> h]

\* the issues with the tracking label that are no pull requests, and those
\* of them that the listing of the sync step returns
Labeled == {n \in DOMAIN issues : mcfg.Label \in LabelSet(issues[n]) /\ ~IsPullRequest(issues[n])}
Listed == {n \in ListTracking : ~IsPullRequest(issues[n])}
\* the sync step returns nil having adopted issue n as it was
Readopts(n) ==
    /\ mgr'.Issue = Ptr(n)
    /\ Len(issues') = Len(issues)
    /\ issues'[n] = issues[n]
SyncReturnsNil == mpc = "syncIssues" /\ mpc' = "update"
\* the body written at creation and the body written by a status update
\* carry the markers of the synced pull request and commit
BodiesRoundTrip ==
    /\ (SyncReturnsNil /\ Len(issues') > Len(issues)) =>
          RoundTrips(issues'[Len(issues')].body, GetNumber(mgr'.PullRequest), mgr'.Commit)
    /\ (mpc = "update" /\ mpc' = "sleep") =>
          RoundTrips(issues'[mgr.Issue[1]].body, GetNumber(mgr.PullRequest), mgr.Commit)

Converged(o) == o.RolloutStatus \in {"NA", ErrorText} \/ ReturnedDone(o)
\* every object of a Rollout marked Complete in the Rollouts R has converged
CompleteIn(R) ==
    \A r \in DOMAIN R.Rollouts :
        R.Rollouts[r].Status = "Complete" =>
            \A o \in DOMAIN R.Rollouts[r].Objects : Converged(R.Rollouts[r].Objects[o])

\* C31: under both policies a Rollout whose status is Complete, in the
\* state and in the pushed comment, has only objects whose most recent
\* status result is done.
C31_CompleteHasConvergedObjects == CompleteIn(ros) /\ CompleteIn(comment)

\* every object of Rollout r reported done in the pass that has just ended
AllDoneInPass(r) ==
    \A o \in Objects(r) : Obj(r, o).RolloutStatus = "NA" \/ ReturnedDone(Obj(r, o))

\* C32: under the parallel policy, at the end of a poll pass every Rollout
\* all of whose objects reported done in that pass is Complete, whatever
\* the objects of the other Rollouts reported.
C32_DoneRolloutIsComplete ==
    (Parallel /\ apc = "pushPass") =>
        \A r \in Rollouts : AllDoneInPass(r) => ros.Rollouts[r].Status = "Complete"

\* ========================================================================
\* Properties of the label removal
\* ========================================================================
\* RemoveLabels was called in the step and the tracker was reachable for
\* it: a removal can fail only because the issue does not carry the label
RemovalReached(step) ==
    afails.step = step /\ afails.fails \cap {"AddLabels", "RemoveLabels"} = {}

\* C33: the best-effort removal of labels attempts every configured label:
\* after it none of the labels of the remove list is left on the issue,
\* also when one of them was absent and its removal failed.
C33_EveryLabelRemoved ==
    /\ RemovalReached("before") => Range(acfg.BeforeRemoveLabels) \cap tracker.labels = {}
    /\ RemovalReached("after") => Range(acfg.AfterRemoveLabels) \cap tracker.labels = {}

\* ========================================================================
\* Properties of the aggregator's sync step
\* ========================================================================
\* C34: when SyncToPRAndIssue has returned nil, m.Issue is set to an issue
\* of the tracker whose markers are the synced pull request and commit, so
\* that the status update works on an existing issue; a failed creation is
\* not passed off as success.
C34_SyncSetsTrackingIssue ==
    (mpc = "update") =>
        /\ mgr.Issue # NilPtr
        /\ mgr.Issue[1] \in DOMAIN issues
        /\ RoundTrips(issues[mgr.Issue[1]].body, GetNumber(mgr.PullRequest), mgr.Commit)
        /\ mlog.sync \in {"adopted", "created"}

\* ========================================================================
\* Properties of the poller's rollouts
\* ========================================================================
\* the sync that is about to run finds the tracked state as the newest
\* candidate: the tracked commit is in the merge log with nothing above it
\* that satisfies the criteria, or the tracked issue is the newest of the
\* issues that satisfy them
FindsTracked ==
    IF PRMode
    THEN \E k \in PRLines :
            /\ mergeLog[k].commit = p.Commit
            /\ \A j \in Above(k) : ~CritSatisfied(IssueOf(j))
    ELSE LET listed == {n \in DOMAIN issues : CritSatisfied(issues[n])}
         IN /\ listed # {}
            /\ p.Issue.id # 0
            /\ issues[MaxOf(listed)].id = p.Issue.id
\* the sync that has run adopted another commit or issue than was tracked
TrackedDiffers == IF PRMode THEN p.Commit # pre.Commit ELSE p.Issue.id # pre.Issue.id

\* C35: Apply is started only in a cycle whose sync reported "changed" and
\* adopted another tracked state, and a cycle that finds the tracked commit
\* or issue as the newest candidate reports no change and does not start
\* Apply: the rollout runs at most once per adopted tracked state, whatever
\* its outcome was.
C35_ApplyOncePerAdoption ==
    [][/\ (pc' = "apply" /\ pc # "apply") =>
             /\ Synced
             /\ ret.changed /\ ret.err = ErrNone
             /\ TrackedDiffers
       /\ (pc = "sync" /\ pc' = "synced" /\ FindsTracked) =>
             /\ ~ret'.changed
             /\ p'.Commit = p.Commit
       /\ (Synced /\ ~ret.changed) => pc' # "apply"]_vars

\* a rollout of the tracked issue has been attempted (p.Applier.IssueNum is
\* set) and a later cycle finds the same issue and reports no change
C35_Witness ==
    /\ IssueMode
    /\ Synced
    /\ Unchanged
    /\ p.IssueNum # 0
    /\ p.IssueNum = p.Issue.number
    /\ p.Issue = pre.Issue

\* the lines of the merge log that carry commit c (line 1 is the newest)
LinesOf(c) == {k \in DOMAIN mergeLog : mergeLog[k].commit = c}

\* C36: in PR-log mode, while the tracked commit is in the merge log, a
\* sync leaves it tracked or adopts a commit above it, never one below it,
\* whatever the issues of the newer merge commits look like.
C36_NeverAdoptsOlderCommit ==
    [][(PRMode /\ pc = "sync" /\ pc' = "synced" /\ LinesOf(p.Commit) # {}) =>
          \E k \in LinesOf(p.Commit) : \E j \in LinesOf(p'.Commit) :
              /\ j <= k
              /\ ret'.changed <=> j < k]_vars

\* the tracked commit is the newest merge, its pull request no longer
\* satisfies the criteria and an older one does: the sync reports no change
C36_Witness ==
    /\ PRMode
    /\ Synced
    /\ Unchanged
    /\ Len(mergeLog) = 2
    /\ PRLines = {1, 2}
    /\ p.Commit = mergeLog[1].commit
    /\ ~CritSatisfied(IssueOf(1))
    /\ CritSatisfied(IssueOf(2))

\* the newest of the issues that satisfy the criteria
Satisfying == {n \in DOMAIN issues : CritSatisfied(issues[n])}
NewestSatisfying == issues[MaxOf(Satisfying)]
\* an earlier sync took up the newest matching issue with a body without
\* valid markers, and the body the issue has now carries them
BodyCorrected ==
    /\ Satisfying # {}
    /\ pre.Issue.id = NewestSatisfying.id
    /\ ~rolloutRegexMatchString(pre.Issue.body)
    /\ rolloutRegexMatchString(NewestSatisfying.body)

\* C37: in issue mode, a sync that runs after the malformed body of the
\* newest matching issue was corrected reports a change and adopts the
\* pull request and commit the corrected body names, so that Run starts
\* the rollout.
C37_CorrectedBodyIsAdopted ==
    (/\ IssueMode
     /\ Synced
     /\ BodyCorrected
     /\ NewestSatisfying.state # "closed"
     /\ ret.err \notin {"ListByRepo failed", "PullRequests.Get failed"}) =>
        /\ ret.changed /\ ret.err = ErrNone
        /\ p.Pr = rolloutRegexFind(NewestSatisfying.body).pr
        /\ p.Commit = rolloutRegexFind(NewestSatisfying.body).commit

\* ------------------------------------------------------------------------
\* Properties of a failed status lookup
\* ------------------------------------------------------------------------
\* C38: when Run has returned because viewer.Status returned an error, the
\* object whose lookup failed is not marked done, neither in the Rollouts
\* nor in the comment pushed last.
C38_FailingObjectNotDone ==
    aerr = ErrStatus =>
        /\ ~O(<<ri, oi>>).Done
        /\ lastPush = "ok" => ~comment.Rollouts[ri].Objects[oi].Done

\* ------------------------------------------------------------------------
\* Properties of the steps of Run before the first kubectl apply
\* ------------------------------------------------------------------------
PreparationSteps == {"sync", "before", "comment", "render", "push0"}
AnyApplied == \E x \in AllObjects : Applied(x)

\* C39: under either policy kubectl apply is first called only after the
\* working copy was synced, beforeActions returned nil, the comment was
\* found or created, every target path was rendered into its Rollout and
\* the comment with every Rollout Pending was pushed; when one of these
\* steps fails, Run returns an error and no object has been applied.
C39_NoApplyBeforePreparation ==
    /\ [](AnyApplied => PreparationSteps \subseteq asteps)
    /\ [][(~AnyApplied /\ AnyApplied') =>
            /\ apc = "apply"
            /\ PreparationSteps \subseteq asteps
            /\ afails.step = "before" /\ ~beforeActions(afails.tr, afails.fails).err
            /\ cid \in DOMAIN thread
            /\ ros.Rollouts = [i \in DOMAIN acfg.Shape |-> getRollout(acfg.Shape[i], i)]
            /\ lastPush = "ok"
            /\ comment = Render(ros)
            /\ \A r \in DOMAIN comment.Rollouts : comment.Rollouts[r].Status = "Pending"]_vars
    /\ [][(apc \in {"sync", "before", "getcomment", "render", "push0"} /\ apc' = "returned") =>
            /\ aerr' # ErrNone
            /\ ~AnyApplied']_vars
    /\ []((apc = "returned" /\ ~(PreparationSteps \subseteq asteps)) =>
            /\ aerr # ErrNone
            /\ ~AnyApplied)

C39_Witness ==
    /\ AnyApplied
    /\ \E x \in AllObjects : ~Applied(x)
    /\ ~Sequential
    /\ afails.step = "before"
    /\ "RemoveLabels" \in afails.fails
    /\ lastPush = "ok"

\* ------------------------------------------------------------------------
\* Properties of the wait-for lists
\* ------------------------------------------------------------------------
\* the line of the body's table for reporter i
LineOf(i) ==
    LET body == TrackingIssue.body
    IN body[CHOOSE k \in DOMAIN body : body[k].t \in {"reporter", "reporter, run after"} /\ body[k].n = i]

\* C40: after a status update the phases and the issue's state are decided
\* by the issue's labels and the reporters' label lists alone: two reporters
\* with the same label lists have the same phase whatever they wait for, and
\* the state is closed exactly when the labels contain the last reporter's
\* complete labels.  The wait-for list is left as configured and only
\* decides the annotation of the reporter's line in the body, which is shown
\* exactly when the reporter is not done and waits for some reporter.
C40_WaitForOnlyAnnotates ==
    /\ [][\A i \in Reporters : mgr'.StatusReporters[i].WaitFor = mgr.StatusReporters[i].WaitFor]_vars
    /\ [](Updated =>
        /\ \A i \in Reporters : \A j \in Reporters :
              LET t == mgr.StatusReporters[i]
                  u == mgr.StatusReporters[j]
              IN (t.InProgressLabels = u.InProgressLabels /\ t.CompleteLabels = u.CompleteLabels) =>
                    /\ t.Status = u.Status
                    /\ t.Done = u.Done
                    /\ t.StatusIcon = u.StatusIcon
        /\ \A i \in Reporters : mgr.StatusReporters[i].Status = "Complete" <=> Superset(mgr.StatusReporters[i].CompleteLabels)
        /\ TrackingIssue.state = "closed" <=> Superset(LastReporter.CompleteLabels)
        /\ TrackingIssue.state \in {"open", "closed"}
        /\ \A i \in Reporters :
              LET t == mgr.StatusReporters[i] IN
              /\ LineOf(i).c = t.Status
              /\ LineOf(i).t = "reporter, run after" <=> (~t.Done /\ t.WaitFor # <<>>)
              /\ Cardinality({k \in DOMAIN TrackingIssue.body :
                                 /\ TrackingIssue.body[k].t \in {"reporter", "reporter, run after"}
                                 /\ TrackingIssue.body[k].n = i}) = 1)

\* R2 waits for R1 and is Complete, with no annotation on its line, while
\* R1 is Pending
C40_Witness ==
    /\ Updated
    /\ Len(mgr.StatusReporters) = 2
    /\ mgr.StatusReporters[2].WaitFor = <<"R1">>
    /\ mgr.StatusReporters[2].Status = "Complete"
    /\ mgr.StatusReporters[1].Status = "Pending"
    /\ mgr.StatusReporters[1].WaitFor = <<"R1">>
    /\ LineOf(2).t = "reporter"
    /\ LineOf(1).t = "reporter, run after"

====
